---- MODULE Spec2Model ----
(***************************************************************************)
(* Bearer-token introspection and resource protection of the calendar MCP  *)
(* server: Config, validate_token, the discovery metadata and the          *)
(* challenge header (auth.py), the pooled client and                       *)
(* IntrospectionTokenVerifier (token_verifier.py), and the wiring and      *)
(* start-up of server.py.                                                  *)
(*                                                                         *)
(* Python strings are TLA+ strings; a JSON value is a tagged record.  A    *)
(* validation call is a task that runs its synchronous prefix (transport   *)
(* policy check, client acquisition, submission of the POST), then waits   *)
(* for a connection, then for the response, and then runs the rest of the  *)
(* function body on the response.                                          *)
(***************************************************************************)
EXTENDS Integers, Sequences, FiniteSets, TLC

VARIABLES
    config,        \* auth.py: the Config instance `config`
    verifier,      \* token_verifier.py: the IntrospectionTokenVerifier instance
    _http_client,  \* token_verifier.py: the module global _http_client
    created,       \* number of pooled AsyncClient instances created so far
    calls,         \* the validation tasks: locals and position of each call
    accepted,      \* history: tokens for which some finished call returned an AccessToken
    server,        \* server.py: the module globals and the position of the start-up
    http_response, \* what the last call of the resource layer gave its caller
    dbh,           \* calendar-api/server.py: the DatabaseHandler `dbh`, its table and cursor
    requests       \* calendar-api: the requests being handled, one per worker thread

vars == <<config, verifier, _http_client, created, calls, accepted,
          server, http_response, dbh, requests>>

---------------------------------------------------------------------------
(* Bounds of the model *)

\* number of validation tasks that run concurrently in SpecConc
MaxTasks == 2

\* pooled clients created before the model stops starting further calls
MaxCreated == 2

---------------------------------------------------------------------------
(* JSON / Python values *)

Absent == [t |-> "absent"]                \* key not present in the JSON object
None == [t |-> "null"]                    \* JSON null, Python None
Bool(b) == [t |-> "bool", v |-> b]
Num(n) == [t |-> "num", v |-> n]
Str(s) == [t |-> "str", v |-> s]
List(l) == [t |-> "list", v |-> l]        \* JSON array, items in order
Obj(keys) == [t |-> "obj", v |-> keys]    \* JSON object, its keys in order

\* variant: `x is not None` in place of the truth value
TruthyIsNotNone(x) == x.t \notin {"absent", "null"}

\* Python truth value of a JSON value (`not x`, `if x`)
Truthy(x) ==
    CASE x.t = "absent" -> FALSE
      [] x.t = "null" -> FALSE
      [] x.t = "bool" -> x.v
      [] x.t = "num" -> x.v # 0
      [] x.t = "str" -> Len(x.v) > 0
      [] x.t = "list" -> Len(x.v) > 0
      [] x.t = "obj" -> Len(x.v) > 0

\* dict.get(key, default) on the decoded JSON object
DictGet(data, key, default) ==
    IF data[key] = Absent THEN default ELSE data[key]

\* str.startswith(prefix)
StartsWith(s, prefix) ==
    Len(s) >= Len(prefix) /\ SubSeq(s, 1, Len(prefix)) = prefix

\* str.startswith(tuple of prefixes)
StartsWithAny(s, prefixes) ==
    \E p \in prefixes : StartsWith(s, p)

\* str.rstrip(ch): every trailing ch removed
RECURSIVE RStrip(_, _)
RStrip(s, ch) ==
    IF Len(s) > 0 /\ SubSeq(s, Len(s), Len(s)) = ch
    THEN RStrip(SubSeq(s, 1, Len(s) - 1), ch)
    ELSE s

\* the characters str.split() treats as separators
Whitespace == {" ", "\t", "\n", "\r"}

\* str.split() with no argument: the maximal runs of non-whitespace, in order.
\* `word` is the run being read, `i` the next position.
RECURSIVE SplitFrom(_, _, _)
SplitFrom(s, i, word) ==
    IF i > Len(s)
    THEN (IF word = "" THEN <<>> ELSE <<word>>)
    ELSE IF SubSeq(s, i, i) \in Whitespace
         THEN (IF word = "" THEN <<>> ELSE <<word>>) \o SplitFrom(s, i + 1, "")
         ELSE SplitFrom(s, i + 1, word \o SubSeq(s, i, i))

Split(s) == SplitFrom(s, 1, "")

\* x in list
Contains(seq, x) == \E i \in 1..Len(seq) : seq[i] = x

\* Python's s[:n]
Slice(s, n) == IF Len(s) <= n THEN s ELSE SubSeq(s, 1, n)

\* the decimal digits of a natural number, as an f-string formats an int
Digit(d) == SubSeq("0123456789", d + 1, d + 1)

RECURSIVE IntToStr(_)
IntToStr(n) ==
    IF n < 10 THEN Digit(n) ELSE IntToStr(n \div 10) \o Digit(n % 10)

---------------------------------------------------------------------------
(* auth.py: Config *)

\* Config.server_url
server_url(cfg) ==
    "http://" \o cfg.HOST \o ":" \o IntToStr(cfg.PORT)

\* variant: the base URL is derived with the https scheme
auth_base_url_https(cfg) ==
    "https://" \o cfg.AUTH_HOST \o ":" \o IntToStr(cfg.AUTH_PORT)
        \o "/realms/" \o cfg.AUTH_REALM \o "/"

\* Config.auth_base_url
auth_base_url(cfg) ==
    "http://" \o cfg.AUTH_HOST \o ":" \o IntToStr(cfg.AUTH_PORT)
        \o "/realms/" \o cfg.AUTH_REALM \o "/"

\* Config.introspection_endpoint
introspection_endpoint(cfg) ==
    auth_base_url(cfg) \o "protocol/openid-connect/token/introspect"

\* The environments the Config class attributes are read from.
Configs ==
    [ HOST : {"svc"},
      PORT : {3000},
      AUTH_HOST : {"localhost", "auth.example.com"},
      AUTH_PORT : {8080},
      AUTH_REALM : {"master"},
      OAUTH_CLIENT_ID : {"mcp-server"},
      OAUTH_CLIENT_SECRET : {"s3cret"},
      MCP_SCOPE : {"mcp:tools"} ]

---------------------------------------------------------------------------
(* token_verifier.py: IntrospectionTokenVerifier.__init__ *)

IntrospectionTokenVerifier(endpoint, url, client_id, client_secret, required_scope) ==
    [ introspection_endpoint |-> endpoint,
      server_url |-> RStrip(url, "/"),
      client_id |-> client_id,
      client_secret |-> client_secret,
      required_scope |-> required_scope ]

\* server.py: the verifier built from auth_config for SSE mode
VerifierFromConfig(cfg) ==
    IntrospectionTokenVerifier(
        introspection_endpoint(cfg), server_url(cfg),
        cfg.OAUTH_CLIENT_ID, cfg.OAUTH_CLIENT_SECRET, cfg.MCP_SCOPE)

\* Verifiers constructed directly, with endpoints of each transport class and
\* a service URL written with a trailing slash.
DirectVerifiers ==
    { IntrospectionTokenVerifier(e, "http://svc:3000/", "mcp-server", "s3cret", "mcp:tools") :
        e \in { "https://auth.example.com/introspect",
                "http://localhost:8080/introspect",
                "http://example.com/introspect" } }

---------------------------------------------------------------------------
(* The transport policy check of both validators *)

\* variant: every plain-http endpoint allowed
AllowedPrefixesPlainHttp == {"https://", "http://"}

\* the tuple passed to startswith
AllowedPrefixes == {"https://", "http://localhost", "http://127.0.0.1"}

\* variant: only the scheme family is tested
EndpointAllowedAnyHttp(endpoint) == StartsWith(endpoint, "http")

EndpointAllowed(endpoint) == StartsWithAny(endpoint, AllowedPrefixes)

---------------------------------------------------------------------------
(* What a function body does: return a value or raise *)

Return(value, reason) == [kind |-> "return", value |-> value, reason |-> reason]
Raise(exc) == [kind |-> "raise", value |-> None, reason |-> exc]
Pending == [kind |-> "pending", value |-> None, reason |-> ""]

\* any(a.rstrip("/") == url for a in items): the generator is consumed in
\* order and stops at the first match; an item without rstrip raises first.
RECURSIVE AnyRStripEquals(_, _)
AnyRStripEquals(items, url) ==
    IF Len(items) = 0 THEN "False"
    ELSE IF Head(items).t # "str" THEN "AttributeError"
    ELSE IF RStrip(Head(items).v, "/") = url THEN "True"
    ELSE AnyRStripEquals(Tail(items), url)

\* variant: entries compared without rstrip("/")
AudienceMatchExact(aud, url) ==
    CASE aud.t = "str" -> IF aud.v = url THEN "True" ELSE "False"
      [] aud.t = "list" ->
            IF \E i \in 1..Len(aud.v) : aud.v[i] = Str(url) THEN "True" ELSE "False"
      [] OTHER -> "TypeError"

\* audiences = [aud] if isinstance(aud, str) else aud, then iterated by any():
\* a list yields its items, a dict its keys, anything else is not iterable.
AudienceMatch(aud, url) ==
    CASE aud.t = "str" -> AnyRStripEquals(<<aud>>, url)
      [] aud.t = "list" -> AnyRStripEquals(aud.v, url)
      [] aud.t = "obj" -> AnyRStripEquals([i \in 1..Len(aud.v) |-> Str(aud.v[i])], url)
      [] OTHER -> "TypeError"

\* variant: split(" "), which separates on single spaces only
RECURSIVE SplitOnSpace(_, _, _)
SplitOnSpace(s, i, word) ==
    IF i > Len(s) THEN <<word>>
    ELSE IF SubSeq(s, i, i) = " "
         THEN <<word>> \o SplitOnSpace(s, i + 1, "")
         ELSE SplitOnSpace(s, i + 1, word \o SubSeq(s, i, i))

ScopesOfSplitOnSpace(scopes_str) ==
    IF ~Truthy(scopes_str) THEN Return(<<>>, "")
    ELSE IF scopes_str.t = "str" THEN Return(SplitOnSpace(scopes_str.v, 1, ""), "")
    ELSE Raise("AttributeError")

\* scopes = scopes_str.split() if scopes_str else []
ScopesOf(scopes_str) ==
    IF ~Truthy(scopes_str) THEN Return(<<>>, "")
    ELSE IF scopes_str.t = "str" THEN Return(Split(scopes_str.v), "")
    ELSE Raise("AttributeError")

---------------------------------------------------------------------------
(* The introspection exchange as the validators see it *)

\* auth.py: AccessToken.__init__
AccessToken(token, client_id, scopes, subject, expires_at) ==
    [ token |-> token, client_id |-> client_id, scopes |-> scopes,
      subject |-> subject, expires_at |-> expires_at ]

\* auth.py: AccessToken.__eq__ between two AccessTokens (lists compare item by item)
AccessTokenEq(a, b) ==
    /\ a.token = b.token
    /\ a.client_id = b.client_id
    /\ a.scopes = b.scopes
    /\ a.subject = b.subject
    /\ a.expires_at = b.expires_at

\* auth.py: AccessToken.__hash__, as the tuple that is handed to hash()
AccessTokenHash(a) == <<a.token, a.client_id, a.scopes, a.subject, a.expires_at>>

\* auth.py: AccessToken.has_scope
has_scope(a, scope) == Contains(a.scopes, scope)

\* Python's repr of a list of strings: ['a', 'b']
RECURSIVE ReprItems(_)
ReprItems(items) ==
    IF items = <<>> THEN ""
    ELSE "'" \o Head(items) \o "'"
            \o (IF Len(items) > 1 THEN ", " ELSE "") \o ReprItems(Tail(items))

ReprList(items) == "[" \o ReprItems(items) \o "]"

\* what an f-string writes for a value taken from the introspection response
Format(x) ==
    CASE x.t = "str" -> x.v
      [] x.t = "num" -> IntToStr(x.v)
      [] x.t = "null" -> "None"
      [] OTHER -> ""

\* auth.py: AccessToken.__repr__
AccessTokenRepr(tok) ==
    "AccessToken(token='" \o Slice(tok.token, 20) \o "...', "
        \o "client_id='" \o Format(tok.client_id) \o "', "
        \o "scopes=" \o ReprList(tok.scopes) \o ", "
        \o "subject='" \o Format(tok.subject) \o "', "
        \o "expires_at=" \o Format(tok.expires_at) \o ")"

\* token_verifier.py: the AccessToken(...) call of verify_token, with the
\* keyword arguments it passes (mcp.server.auth.provider.AccessToken)
ProviderAccessToken(token, client_id, scopes, expires_at, resource) ==
    [ token |-> token, client_id |-> client_id, scopes |-> scopes,
      expires_at |-> expires_at, resource |-> resource ]

\* variant: only server errors are refused
StatusRejectedServerError(status_code) == status_code >= 500

\* `if response.status_code != 200`
StatusRejected(status_code) == status_code # 200

\* variant: a missing `active` defaults to true
InactiveDefaultTrue(data) == ~Truthy(DictGet(data, "active", Bool(TRUE)))

\* variant: a token whose `exp` lies before the year 2001 counts as inactive
InactiveOrExpired(data) ==
    \/ ~Truthy(DictGet(data, "active", Bool(FALSE)))
    \/ data.exp.t = "num" /\ data.exp.v < 978307200

\* `if not data.get("active", False)`
Inactive(data) == ~Truthy(DictGet(data, "active", Bool(FALSE)))

\* variant: the audience checks come before the test of `active`
validate_token_try_audience_first(token, o) ==
    IF o.kind = "exception" THEN Raise(o.exc)
    ELSE IF StatusRejected(o.status_code) THEN Return(None, "Introspection failed")
    ELSE IF o.body.t = "text" THEN Raise("JSONDecodeError")
    ELSE IF o.body.t # "dict" THEN Raise("AttributeError")
    ELSE
      LET data == o.body.v
          aud == DictGet(data, "aud", None)
          url == RStrip(server_url(config), "/")
          match == AudienceMatch(aud, url)
          scopes == ScopesOf(DictGet(data, "scope", Str("")))
      IN  IF ~Truthy(aud) THEN Return(None, "Missing audience claim in token")
          ELSE IF match \notin {"True", "False"} THEN Raise(match)
          ELSE IF match = "False" THEN Return(None, "Audience mismatch")
          ELSE IF Inactive(data) THEN Return(None, "Token is inactive or expired")
          ELSE IF scopes.kind = "raise" THEN scopes
          ELSE IF ~Contains(scopes.value, config.MCP_SCOPE)
               THEN Return(None, "Token missing required scope")
          ELSE Return(AccessToken(token,
                                  DictGet(data, "client_id", Str("unknown")),
                                  scopes.value,
                                  DictGet(data, "sub", Str("unknown")),
                                  DictGet(data, "exp", None)), "")

\* auth.py: the body of the try block of validate_token from the point where
\* client.post(...) returns or raises
validate_token_try(token, o) ==
    IF o.kind = "exception" THEN Raise(o.exc)
    ELSE IF StatusRejected(o.status_code) THEN Return(None, "Introspection failed")
    ELSE IF o.body.t = "text" THEN Raise("JSONDecodeError")
    ELSE IF o.body.t # "dict" THEN Raise("AttributeError")
    ELSE
      LET data == o.body.v
          aud == DictGet(data, "aud", None)
          url == RStrip(server_url(config), "/")
          match == AudienceMatch(aud, url)
          scopes == ScopesOf(DictGet(data, "scope", Str("")))
      IN  IF Inactive(data) THEN Return(None, "Token is inactive or expired")
          ELSE IF ~Truthy(aud) THEN Return(None, "Missing audience claim in token")
          ELSE IF match \notin {"True", "False"} THEN Raise(match)
          ELSE IF match = "False" THEN Return(None, "Audience mismatch")
          ELSE IF scopes.kind = "raise" THEN scopes
          ELSE IF ~Contains(scopes.value, config.MCP_SCOPE)
               THEN Return(None, "Token missing required scope")
          ELSE Return(AccessToken(token,
                                  DictGet(data, "client_id", Str("unknown")),
                                  scopes.value,
                                  DictGet(data, "sub", Str("unknown")),
                                  DictGet(data, "exp", None)), "")

\* variant: `except httpx.HTTPError`, which lets other exceptions through
ExceptHTTPError(r, message) ==
    IF r.kind = "raise" /\ r.reason \in {"TimeoutException", "ConnectError"}
    THEN Return(None, message) ELSE r

\* variant: the handler hands the error message back instead of None
ExceptReturnsMessage(r, message) ==
    IF r.kind = "raise" THEN Return(Str(message), message) ELSE r

\* `except Exception as e: ...; return None`
ExceptException(r, message) ==
    IF r.kind = "raise" THEN Return(None, message) ELSE r

\* variant: a token accepted before is answered from a cache of verdicts
validate_token_cached(token, o) ==
    IF token \in accepted
    THEN Return(AccessToken(token, Str("unknown"), <<config.MCP_SCOPE>>,
                            Str("unknown"), None), "")
    ELSE ExceptException(validate_token_try(token, o), "Token validation error")

\* auth.py: validate_token from the response on, with its except clause
validate_token(token, o) ==
    ExceptException(validate_token_try(token, o), "Token validation error")

\* variant: verify_token compares `aud` without trimming its trailing slashes
verify_token_try_exact_audience(token, o) ==
    IF o.kind = "exception" THEN Raise(o.exc)
    ELSE IF StatusRejected(o.status_code) THEN Return(None, "Introspection failed")
    ELSE IF o.body.t = "text" THEN Raise("JSONDecodeError")
    ELSE IF o.body.t # "dict" THEN Raise("AttributeError")
    ELSE
      LET data == o.body.v
          aud == DictGet(data, "aud", None)
          match == AudienceMatchExact(aud, verifier.server_url)
          scopes == ScopesOf(DictGet(data, "scope", Str("")))
      IN  IF Inactive(data) THEN Return(None, "Token is inactive or expired")
          ELSE IF ~Truthy(aud) THEN Return(None, "Missing audience claim in token")
          ELSE IF match \notin {"True", "False"} THEN Raise(match)
          ELSE IF match = "False" THEN Return(None, "Audience mismatch")
          ELSE IF scopes.kind = "raise" THEN scopes
          ELSE IF ~Contains(scopes.value, verifier.required_scope)
               THEN Return(None, "Token missing required scope")
          ELSE Return(ProviderAccessToken(token,
                                          DictGet(data, "client_id", Str("unknown")),
                                          scopes.value,
                                          DictGet(data, "exp", None),
                                          verifier.server_url), "")

\* token_verifier.py: the body of the try block of verify_token from the point
\* where client.post(...) returns or raises
verify_token_try(token, o) ==
    IF o.kind = "exception" THEN Raise(o.exc)
    ELSE IF StatusRejected(o.status_code) THEN Return(None, "Introspection failed")
    ELSE IF o.body.t = "text" THEN Raise("JSONDecodeError")
    ELSE IF o.body.t # "dict" THEN Raise("AttributeError")
    ELSE
      LET data == o.body.v
          aud == DictGet(data, "aud", None)
          match == AudienceMatch(aud, verifier.server_url)
          scopes == ScopesOf(DictGet(data, "scope", Str("")))
      IN  IF Inactive(data) THEN Return(None, "Token is inactive or expired")
          ELSE IF ~Truthy(aud) THEN Return(None, "Missing audience claim in token")
          ELSE IF match \notin {"True", "False"} THEN Raise(match)
          ELSE IF match = "False" THEN Return(None, "Audience mismatch")
          ELSE IF scopes.kind = "raise" THEN scopes
          ELSE IF ~Contains(scopes.value, verifier.required_scope)
               THEN Return(None, "Token missing required scope")
          ELSE Return(ProviderAccessToken(token,
                                          DictGet(data, "client_id", Str("unknown")),
                                          scopes.value,
                                          DictGet(data, "exp", None),
                                          verifier.server_url), "")

\* token_verifier.py: verify_token from the response on, with its except clause
verify_token(token, o) ==
    ExceptException(verify_token_try(token, o), "Token verification error")

---------------------------------------------------------------------------
(* Tokens presented and outcomes of the introspection exchange *)

Tokens == {"tok-A", "tok-B"}

\* tokens of 5, 20, 40 and 41 characters
TokensByLength ==
    { "tok-A", "0123456789abcdefghij",
      "0123456789abcdefghijklmnopqrstuvwxyzABCD", "0123456789abcdefghijklmnopqrstuvwxyzABCDE" }

\* a decoded JSON object with the six keys the validators read
Dict(active, aud, scope, client_id, sub, exp) ==
    [ t |-> "dict",
      v |-> [ active |-> active, aud |-> aud, scope |-> scope,
              client_id |-> client_id, sub |-> sub, exp |-> exp ] ]

ActiveValues == {Absent, Bool(TRUE), Bool(FALSE), Str("yes")}

AudValues ==
    { Absent, Str(""), List(<<>>), Num(5),
      Str("http://svc:3000"), Str("http://svc:3000/"), Str("http://other:3000"),
      List(<<Str("http://other:3000"), Str("http://svc:3000/")>>),
      List(<<Str("http://other:3000")>>),
      List(<<Num(5), Str("http://svc:3000")>>),
      List(<<Str("http://svc:3000"), Num(5)>>),
      Obj(<<"http://svc:3000">>) }

ScopeValues ==
    { Absent, Str(""), Str("mcp:tools"), Str("mcp:tools extra:scope"),
      Str("extra:scope"), Str("read\tmcp:tools\n"), Str("xmcp:tools:y"),
      List(<<Str("mcp:tools")>>) }

ClientIdValues == {Absent, Str("c1")}
SubValues == {Absent, Str("u1")}
ExpValues == {Absent, Num(1), Num(2000000000)}

JsonObjects ==
    { Dict(a, au, sc, ci, su, ex) :
        a \in ActiveValues, au \in AudValues, sc \in ScopeValues,
        ci \in ClientIdValues, su \in SubValues, ex \in ExpValues }

\* the response of the scenario of an accepted token
GoodObject ==
    Dict(Bool(TRUE), Str("http://svc:3000"), Str("mcp:tools read"),
         Str("c1"), Str("u1"), Num(2000000000))

Exception(exc) == [kind |-> "exception", exc |-> exc]
Response(status_code, body) ==
    [kind |-> "response", status_code |-> status_code, body |-> body]
NoOutcome == [kind |-> "pending"]

\* every way the awaited client.post(...) and response.json() can end
Outcomes ==
    { Exception(e) : e \in {"TimeoutException", "ConnectError"} }
    \cup { Response(st, b) : st \in {401, 500}, b \in {[t |-> "text"], GoodObject} }
    \cup { Response(200, b) : b \in {[t |-> "text"], List(<<>>), GoodObject} }
    \cup { Response(200, b) : b \in JsonObjects }

\* the outcomes used when several validations run at once
ConcOutcomes ==
    { Exception("TimeoutException"), Response(500, [t |-> "text"]),
      Response(200, GoodObject),
      Response(200, Dict(Bool(FALSE), Str("http://svc:3000"), Str("mcp:tools"),
                         Str("c1"), Str("u1"), Num(1))) }

---------------------------------------------------------------------------
(* token_verifier.py: the pooled client *)

\* httpx.Limits(max_connections=10)
max_connections == 10

\* the httpx.AsyncClient(...) built by get_http_client
PooledClient(id) ==
    [t |-> "AsyncClient", pooled |-> TRUE, id |-> id, is_closed |-> FALSE]

\* variant: the stored client is reused without the test of is_closed
get_http_client_ignores_closed ==
    IF _http_client = None THEN PooledClient(created + 1) ELSE _http_client

\* variant: a new client on every call, without the test of the stored one
get_http_client_unguarded == PooledClient(created + 1)

\* get_http_client(): the client it returns (and stores in _http_client)
get_http_client ==
    IF _http_client = None \/ _http_client.is_closed
    THEN PooledClient(created + 1)
    ELSE _http_client

\* the reference a call keeps to the client it posts through
ClientRef(client) == [pooled |-> client.pooled, id |-> client.id]

\* auth.py: `async with httpx.AsyncClient(timeout=10.0) as client`, the
\* client private to call c
PrivateClient(c) == [pooled |-> FALSE, id |-> c]

\* connections a client holds open: one per request awaiting its response
OpenConnections(ref) ==
    Cardinality({c \in DOMAIN calls :
                    calls[c].pc = "await_response" /\ calls[c].client = ref})

\* whether the client a call posts through has been closed under it
ClientClosed(ref) ==
    /\ ref.pooled
    /\ \/ _http_client = None
       \/ _http_client.id # ref.id
       \/ _http_client.is_closed

---------------------------------------------------------------------------
(* The validation tasks *)

IdleCall ==
    [ pc |-> "idle", path |-> "", token |-> "", client |-> None,
      posts |-> 0, ret |-> Pending, resp |-> NoOutcome, log |-> <<>>,
      connected |-> FALSE, waited |-> 0, elapsed |-> 0 ]

\* token_verifier.py: the line verify_token prints (and logs) on entry
VerifyTokenCalledLine(token) ==
    "DEBUG: verify_token called with token: " \o Slice(token, 40) \o "..."

\* validate_token(token) up to its first suspension: the transport policy
\* check, then the private client and the POST submitted through it
ValidateTokenStart(c, token) ==
    /\ calls[c].pc = "idle"
    /\ IF ~EndpointAllowed(introspection_endpoint(config))
       THEN calls' = [calls EXCEPT ![c] =
                [IdleCall EXCEPT !.pc = "done", !.path = "validate_token",
                                 !.token = token,
                                 !.ret = Return(None, "Introspection endpoint must use HTTPS in production")]]
       ELSE calls' = [calls EXCEPT ![c] =
                [IdleCall EXCEPT !.pc = "pool_wait", !.path = "validate_token",
                                 !.token = token, !.client = PrivateClient(c),
                                 !.posts = 1]]
    /\ UNCHANGED <<dbh, requests, server, http_response, config, verifier, _http_client, created, accepted>>

\* variant: verify_token writes the service URL back with a slash appended
self_with_slash(self, token) == [self EXCEPT !.server_url = @ \o "/"]

\* the verifier object once verify_token(token) has run on it: the method
\* reads self.* and assigns none of its attributes
self_after_verify_token(self, token) == self

\* verify_token(token) up to its first suspension: the transport policy
\* check, then get_http_client() and the POST submitted through the client
VerifyTokenStart(c, token) ==
    /\ calls[c].pc = "idle"
    /\ IF ~EndpointAllowed(verifier.introspection_endpoint)
       THEN /\ calls' = [calls EXCEPT ![c] =
                [IdleCall EXCEPT !.pc = "done", !.path = "verify_token",
                                 !.token = token,
                                 !.log = <<VerifyTokenCalledLine(token)>>,
                                 !.ret = Return(None, "Introspection endpoint must use HTTPS in production")]]
            /\ UNCHANGED <<_http_client, created>>
       ELSE /\ calls' = [calls EXCEPT ![c] =
                [IdleCall EXCEPT !.pc = "pool_wait", !.path = "verify_token",
                                 !.token = token,
                                 !.log = <<VerifyTokenCalledLine(token)>>,
                                 !.client = ClientRef(get_http_client),
                                 !.posts = 1]]
            /\ _http_client' = get_http_client
            /\ created' = IF get_http_client = _http_client THEN created ELSE created + 1
    /\ verifier' = self_after_verify_token(verifier, token)
    /\ UNCHANGED <<dbh, requests, server, http_response, config, accepted>>

\* the POST gets a connection of its client's pool
PoolConnect(c) ==
    /\ calls[c].pc = "pool_wait"
    /\ calls[c].client.pooled => OpenConnections(calls[c].client) < max_connections
    /\ calls' = [calls EXCEPT ![c].pc = "await_response"]
    /\ UNCHANGED <<dbh, requests, server, http_response, config, verifier, _http_client, created, accepted>>

\* variant: the POST is sent once more after a fault of the exchange
RepeatsOnFault(o) ==
    IF o.kind = "exception" \/ (o.kind = "response" /\ o.status_code # 200)
    THEN 1 ELSE 0

\* further POSTs a call sends once the exchange has ended in o: the body has
\* one `await client.post(...)` and no loop, every fault leads to `return None`
Repeats(o) == 0

\* validate_token resumes with one of the outcomes of the exchange and runs to its end
ValidateTokenFinish(c, outcomes) ==
    /\ calls[c].pc = "await_response"
    /\ calls[c].path = "validate_token"
    /\ \E o \in outcomes :
        calls' = [calls EXCEPT ![c].pc = "done",
                              ![c].resp = o,
                              ![c].posts = @ + Repeats(o),
                              ![c].ret = validate_token(calls[c].token, o)]
    /\ UNCHANGED <<dbh, requests, server, http_response, config, verifier, _http_client, created, accepted>>

\* verify_token resumes with one of the outcomes of the exchange and runs to its end
VerifyTokenFinish(c, outcomes) ==
    /\ calls[c].pc = "await_response"
    /\ calls[c].path = "verify_token"
    /\ \E o \in outcomes :
        /\ ClientClosed(calls[c].client) => o.kind = "exception"
        /\ calls' = [calls EXCEPT ![c].pc = "done",
                              ![c].resp = o,
                              ![c].posts = @ + Repeats(o),
                              ![c].ret = verify_token(calls[c].token, o)]
    /\ UNCHANGED <<dbh, requests, server, http_response, config, verifier, _http_client, created, accepted>>

\* the caller takes the verdict; the task is free for the next request
Deliver(c) ==
    /\ calls[c].pc = "done"
    /\ accepted' = IF calls[c].ret.kind = "return" /\ calls[c].ret.value # None
                   THEN accepted \cup {calls[c].token}
                   ELSE accepted
    /\ calls' = [calls EXCEPT ![c] = IdleCall]
    /\ UNCHANGED <<dbh, requests, server, http_response, config, verifier, _http_client, created>>

\* httpx.AsyncClient(timeout=10.0): the seconds each wait of the exchange
\* (for a pooled connection, for the connection to open, for the next bytes
\* of the response) may last before TimeoutException is raised
timeout == 10

\* a second passes while call c waits; a call waits for a pooled connection
\* only while its client's pool has none free
Tick(c) ==
    /\ \/ calls[c].pc = "await_response"
       \/ /\ calls[c].pc = "pool_wait"
          /\ calls[c].client.pooled
          /\ OpenConnections(calls[c].client) >= max_connections
    /\ calls[c].waited < timeout
    /\ calls' = [calls EXCEPT ![c].waited = @ + 1, ![c].elapsed = @ + 1]
    /\ UNCHANGED <<dbh, requests, server, http_response, config, verifier, _http_client, created, accepted>>

\* the connection to the authorization server opens: the wait for the
\* response begins
Connected(c) ==
    /\ calls[c].pc = "await_response"
    /\ ~calls[c].connected
    /\ calls' = [calls EXCEPT ![c].connected = TRUE, ![c].waited = 0]
    /\ UNCHANGED <<dbh, requests, server, http_response, config, verifier, _http_client, created, accepted>>

\* the wait call c is in has lasted `timeout` seconds: httpx raises TimeoutException
TimedOut(c) ==
    /\ calls[c].waited = timeout
    /\ \/ ValidateTokenFinish(c, {Exception("TimeoutException")})
       \/ VerifyTokenFinish(c, {Exception("TimeoutException")})

\* the connection attempt of call c is refused
Refused(c) ==
    /\ ~calls[c].connected
    /\ \/ ValidateTokenFinish(c, {Exception("ConnectError")})
       \/ VerifyTokenFinish(c, {Exception("ConnectError")})

\* the authorization server answers call c over the open connection
AnsweredInTime(c) ==
    /\ calls[c].connected
    /\ \/ ValidateTokenFinish(c, {o \in ConcOutcomes : o.kind = "response"})
       \/ VerifyTokenFinish(c, {o \in ConcOutcomes : o.kind = "response"})

\* the hosting process closes the shared client (what is_closed tests for)
CloseClient ==
    /\ _http_client # None
    /\ ~_http_client.is_closed
    /\ created < MaxCreated
    /\ _http_client' = [_http_client EXCEPT !.is_closed = TRUE]
    /\ UNCHANGED <<dbh, requests, server, http_response, config, verifier, created, calls, accepted>>

---------------------------------------------------------------------------
(* auth.py and token_verifier.py: discovery metadata and the challenge header *)

\* the value a key of a metadata document holds, as Python builds it
PyList(items) == [t |-> "list", v |-> items]

\* get_protected_resource_metadata(), the variant that keeps the trailing
\* slash of the authorization server's base URL
metadata_untrimmed(cfg) ==
    [ resource |-> server_url(cfg),
      authorization_servers |-> PyList(<<auth_base_url(cfg)>>),
      scopes_supported |-> PyList(<<cfg.MCP_SCOPE>>),
      bearer_methods_supported |-> PyList(<<"header">>) ]

\* auth.py: get_protected_resource_metadata()
get_protected_resource_metadata(cfg) ==
    [ resource |-> server_url(cfg),
      authorization_servers |-> PyList(<<RStrip(auth_base_url(cfg), "/")>>),
      scopes_supported |-> PyList(<<cfg.MCP_SCOPE>>),
      bearer_methods_supported |-> PyList(<<"header">>) ]

\* get_www_authenticate_header(), the variant that points at the
\* authorization server instead of this service
www_authenticate_auth_server(cfg) ==
    "Bearer realm=\"mcp\", resource_metadata=\""
        \o auth_base_url(cfg) \o ".well-known/oauth-protected-resource" \o "\""

\* auth.py: get_www_authenticate_header()
get_www_authenticate_header(cfg) ==
    LET metadata_url == server_url(cfg) \o "/.well-known/oauth-protected-resource"
    IN  "Bearer realm=\"mcp\", resource_metadata=\"" \o metadata_url \o "\""

\* starlette's JSONResponse(content): status 200 and the document as body
JSONResponse(content) == [t |-> "JSONResponse", status_code |-> 200, body |-> content]

\* token_verifier.py: get_well_known_routes(mcp_path), one Route whose endpoint
\* answers with the metadata document of auth.py's config
get_well_known_routes(cfg) ==
    << [ path |-> "/.well-known/oauth-protected-resource",
         endpoint |-> JSONResponse(get_protected_resource_metadata(cfg)),
         methods |-> <<"GET">>,
         name |-> "oauth_protected_resource_metadata" ] >>

\* token_verifier.py: get_routes(mcp_path)
get_routes(cfg) == get_well_known_routes(cfg)

---------------------------------------------------------------------------
(* server.py: the module-level wiring and the start-up *)

\* str.lower() on the letters a transport name is written with
LowerChar(ch) ==
    CASE ch = "S" -> "s" [] ch = "E" -> "e" [] ch = "T" -> "t"
      [] ch = "D" -> "d" [] ch = "I" -> "i" [] ch = "O" -> "o"
      [] OTHER -> ch

RECURSIVE Lower(_)
Lower(s) == IF s = "" THEN "" ELSE LowerChar(SubSeq(s, 1, 1)) \o Lower(Tail(s))

\* OAUTH_AVAILABLE = LOCAL_AUTH_AVAILABLE and FASTMCP_AUTH_AVAILABLE
OAUTH_AVAILABLE(srv) == srv.LOCAL_AUTH_AVAILABLE /\ srv.FASTMCP_AUTH_AVAILABLE

\* auth_config: auth.py's config, or None when the import failed
auth_config(srv, cfg) == IF srv.LOCAL_AUTH_AVAILABLE THEN cfg ELSE None

\* FastMCP("calendar-mcp-server-auth", auth=...)
FastMCP(auth) == [t |-> "FastMCP", auth |-> auth]

\* no server.py process: auth.py and token_verifier.py used on their own
NoServer ==
    [ pc |-> "none", MCP_TRANSPORT |-> "", LOCAL_AUTH_AVAILABLE |-> TRUE,
      FASTMCP_AUTH_AVAILABLE |-> TRUE, mcp |-> None, transport |-> "",
      raised |-> "" ]

\* the process before server.py's module body has built `mcp`
Starting(transport, local, fastmcp) ==
    [ pc |-> "module", MCP_TRANSPORT |-> transport, LOCAL_AUTH_AVAILABLE |-> local,
      FASTMCP_AUTH_AVAILABLE |-> fastmcp, mcp |-> None, transport |-> "",
      raised |-> "" ]

NoResponse == [t |-> "none"]

\* the module body, the variant that compares MCP_TRANSPORT without .lower()
SseWithAuthExactCase(srv, cfg) ==
    /\ srv.MCP_TRANSPORT = "sse"
    /\ OAUTH_AVAILABLE(srv)
    /\ auth_config(srv, cfg) # None

\* the condition of server.py under which `mcp` is built with the verifier
SseWithAuth(srv, cfg) ==
    /\ Lower(srv.MCP_TRANSPORT) = "sse"
    /\ OAUTH_AVAILABLE(srv)
    /\ auth_config(srv, cfg) # None

\* server.py, module body: token_verifier and mcp are built
BuildServer ==
    /\ server.pc = "module"
    /\ IF SseWithAuth(server, config)
       THEN /\ verifier' = VerifierFromConfig(config)
            /\ server' = [server EXCEPT !.pc = "main", !.mcp = FastMCP(VerifierFromConfig(config))]
       ELSE /\ verifier' = verifier
            /\ server' = [server EXCEPT !.pc = "main", !.mcp = FastMCP(None)]
    /\ UNCHANGED <<dbh, requests, config, _http_client, created, calls, accepted, http_response>>

\* `not auth_config.OAUTH_CLIENT_SECRET`
SecretMissing(cfg) == cfg.OAUTH_CLIENT_SECRET = ""

\* server.py, `if __name__ == "__main__":` up to mcp.run(...)
Main ==
    /\ server.pc = "main"
    /\ IF Lower(server.MCP_TRANSPORT) = "sse"
       THEN IF ~OAUTH_AVAILABLE(server)
            THEN server' = [server EXCEPT !.pc = "failed", !.raised = "RuntimeError"]
            ELSE IF auth_config(server, config) = None
            THEN server' = [server EXCEPT !.pc = "failed", !.raised = "RuntimeError"]
            ELSE IF SecretMissing(config)
            THEN server' = [server EXCEPT !.pc = "failed", !.raised = "ValueError"]
            ELSE server' = [server EXCEPT !.pc = "serving", !.transport = "sse"]
       ELSE server' = [server EXCEPT !.pc = "serving", !.transport = "stdio"]
    /\ UNCHANGED <<dbh, requests, config, verifier, _http_client, created, calls, accepted,
                   http_response>>

\* whether the process serves the SSE transport
ServingSse == server.pc = "serving" /\ server.transport = "sse"

\* GET /.well-known/oauth-protected-resource, served by the route that FastMCP
\* mounts from the auth provider's get_routes()
GetWellKnown ==
    /\ ServingSse
    /\ server.mcp.auth # None
    /\ \E i \in 1..Len(get_routes(config)) :
          /\ get_routes(config)[i].path = "/.well-known/oauth-protected-resource"
          /\ http_response' = get_routes(config)[i].endpoint
    /\ UNCHANGED <<dbh, requests, config, verifier, _http_client, created, calls, accepted, server>>

\* what a plain function call hands back to its caller
Value(of, v) == [t |-> "value", of |-> of, v |-> v]

\* a caller of auth.py invokes get_protected_resource_metadata()
CallMetadata ==
    /\ server.pc = "serving"
    /\ server.LOCAL_AUTH_AVAILABLE
    /\ http_response' = Value("get_protected_resource_metadata",
                              get_protected_resource_metadata(config))
    /\ UNCHANGED <<dbh, requests, config, verifier, _http_client, created, calls, accepted, server>>

\* a caller of auth.py invokes get_www_authenticate_header()
CallChallengeHeader ==
    /\ server.pc = "serving"
    /\ server.LOCAL_AUTH_AVAILABLE
    /\ http_response' = Value("get_www_authenticate_header",
                              get_www_authenticate_header(config))
    /\ UNCHANGED <<dbh, requests, config, verifier, _http_client, created, calls, accepted, server>>

\* the 401 of the bearer middleware that IntrospectionTokenVerifier inherits
\* from AuthProvider: no code of the repository builds its headers
MiddlewareUnauthorized ==
    [ t |-> "Response", status_code |-> 401,
      www_authenticate |-> [built_by |-> "AuthProvider.get_middleware"] ]

\* the request went past the middleware, to the tool it names
Handled == [t |-> "Response", status_code |-> 200, www_authenticate |-> None]

\* a request with a bearer token arrives at the SSE server: the middleware of
\* mcp.auth hands the token to verify_token
ProtectedRequest(c, token) ==
    /\ ServingSse
    /\ server.mcp.auth # None
    /\ VerifyTokenStart(c, token)

\* the middleware answers the request from the verdict of verify_token
Respond(c) ==
    /\ ServingSse
    /\ calls[c].pc = "done"
    /\ calls[c].path = "verify_token"
    /\ http_response' = IF calls[c].ret.kind = "return" /\ calls[c].ret.value # None
                        THEN Handled
                        ELSE MiddlewareUnauthorized
    /\ accepted' = IF calls[c].ret.kind = "return" /\ calls[c].ret.value # None
                   THEN accepted \cup {calls[c].token}
                   ELSE accepted
    /\ calls' = [calls EXCEPT ![c] = IdleCall]
    /\ UNCHANGED <<dbh, requests, config, verifier, _http_client, created, server>>

---------------------------------------------------------------------------
(* calendar-api: the schedule store and its routes *)

\* the rows a table may hold at most
MaxRows == 2

\* the schedule ids of the requests
Sids == {"s1"}

\* request.headers: the three identity headers, each absent (None), empty
\* or naming a user
Headers(fwd, uid, remote) ==
    [X_Forwarded_User |-> fwd, X_User_ID |-> uid, X_Remote_User |-> remote]

HeaderSets ==
    { Headers(None, None, None),
      Headers(Str("alice"), Str("bob"), None),
      Headers(Str(""), Str("bob"), Str("alice")),
      Headers(None, None, Str("alice")) }

\* server.py: get_user_from_headers
get_user_from_headers(headers) ==
    LET first == headers.X_Forwarded_User
        second == IF ~Truthy(first) THEN headers.X_User_ID ELSE first
    IN  IF ~Truthy(second) THEN headers.X_Remote_User ELSE second

\* schedule.dict() of the body of a request: the columns that matter to the
\* routes (content, category and the time strings, well formed in the
\* requests modelled, are left out)
Schedule(sid, user_id, name, level, status) ==
    [sid |-> sid, user_id |-> user_id, name |-> name, level |-> level, status |-> status]

Bodies ==
    { Schedule("s1", Str("bob"), "x", 1, 0),
      Schedule("s1", None, "y", 2, 1),
      Schedule("s1", None, "y", 4, 2) }

\* method.py: Method.check_params, for time strings strptime accepts
check_params(jsn) ==
    /\ jsn.level \in {1, 2, 3}
    /\ 0 <= jsn.status /\ jsn.status <= 1

\* method.py: condition = {'sid': schedule_id}, with user_id added when the
\* request has one
Condition(sid, user_id) ==
    IF Truthy(user_id) THEN [sid |-> sid, user_id |-> user_id] ELSE [sid |-> sid]

\* server.py get_schedules: the condition of a listing; without a user
\* fetch_data gets no condition
ListCondition(user_id) ==
    IF Truthy(user_id) THEN [user_id |-> user_id] ELSE <<>>

\* the WHERE clause `k = ? AND ...` built from the keys of the condition
Where(row, condition) == \A k \in DOMAIN condition : row[k] = condition[k]

\* database_handler.py: the rows SELECT * FROM table [WHERE ...] yields.  The
\* table is kept as the set of its rows: rows equal in every column are
\* matched, rewritten and deleted together by every statement of the routes.
Select(table, condition) == {row \in table : Where(row, condition)}

\* database_handler.py: insert_data
insert_data(table, data) == table \cup {data}

\* database_handler.py: update_data, UPDATE table SET every column of data
\* WHERE condition
update_data(table, data, condition) ==
    {IF Where(row, condition) THEN data ELSE row : row \in table}

\* database_handler.py: delete_data
delete_data(table, condition) == {row \in table : ~Where(row, condition)}

\* the cursor self.c after a statement of request `by`: the rows not yet fetched
Cursor(rows, by) == [rows |-> rows, by |-> by]

\* dbh after create_table on a new database
EmptyDatabase == [table |-> {}, c |-> Cursor({}, 0)]

\* schedule_dict: the body with user_id overwritten when the request has one
schedule_dict(body, user_id) ==
    IF Truthy(user_id) THEN [body EXCEPT !.user_id = user_id] ELSE body

IdleRequest ==
    [pc |-> "idle", route |-> "", headers |-> Headers(None, None, None),
     user_id |-> None, schedule_id |-> "", schedule |-> None, condition |-> <<>>,
     found |-> FALSE, status_code |-> 0, rows |-> {}, response |-> None]

\* the thread once its route has answered: the answer is all it keeps
Answer(status_code, rows, response) ==
    [IdleRequest EXCEPT !.pc = "done", !.status_code = status_code,
                        !.rows = rows, !.response = response]

\* the condition the route hands to its first SELECT
ConditionOf(route, schedule_id, schedule, user_id) ==
    CASE route = "get_schedules" -> ListCondition(user_id)
      [] route = "create_schedule" -> Condition(schedule.sid, user_id)
      [] OTHER -> Condition(schedule_id, user_id)

\* A worker thread takes a request and runs its route up to the SELECT of
\* fetch_data: self.c.execute(cmd, params) on the cursor all threads share.
\* `found` keeps whether this statement matched a row (history).
Execute(r, route, headers, schedule_id, schedule) ==
    /\ requests[r].pc \in {"idle", "done"}
    /\ route = "create_schedule" =>
          Cardinality(dbh.table)
            + Cardinality({q \in DOMAIN requests : requests[q].pc = "write"
                                /\ requests[q].route = "create_schedule"}) < MaxRows
    /\ LET user_id == get_user_from_headers(headers)
           condition == ConditionOf(route, schedule_id, schedule, user_id)
           rows == Select(dbh.table, condition)
       IN  /\ requests' = [requests EXCEPT ![r] =
                 [IdleRequest EXCEPT !.pc = "fetch", !.route = route,
                                     !.headers = headers, !.user_id = user_id,
                                     !.schedule_id = schedule_id,
                                     !.schedule = schedule,
                                     !.condition = condition,
                                     !.found = rows # {}]]
           /\ dbh' = [dbh EXCEPT !.c = Cursor(rows, r)]
    /\ UNCHANGED <<config, verifier, _http_client, created, calls, accepted,
                   server, http_response>>

\* what the route does with the result of fetch_data / check_existence
AfterFetch(q, result) ==
    CASE q.route = "get_schedules" -> Answer(200, result, None)
      [] q.route = "get_schedule" ->
            IF result = {} THEN Answer(404, {}, None) ELSE Answer(200, result, None)
      [] q.route = "create_schedule" ->
            IF result # {} \/ ~check_params(schedule_dict(q.schedule, q.user_id))
            THEN Answer(400, {}, None)
            ELSE [q EXCEPT !.pc = "write"]
      [] q.route = "update_schedule" ->
            IF result = {} \/ ~check_params(schedule_dict(q.schedule, q.user_id))
            THEN Answer(404, {}, None)
            ELSE [q EXCEPT !.pc = "write"]
      [] q.route = "delete_schedule" ->
            IF result = {} THEN Answer(404, {}, None) ELSE [q EXCEPT !.pc = "write"]

\* rows = self.c.fetchall() of fetch_data: the thread gets what is left on
\* the shared cursor, its own rows if no other thread used the cursor since
\* its SELECT, else what the statement of the other thread left there
Fetch(r) ==
    /\ requests[r].pc = "fetch"
    /\ requests' = [requests EXCEPT ![r] = AfterFetch(@, dbh.c.rows)]
    /\ dbh' = [dbh EXCEPT !.c.rows = {}]
    /\ UNCHANGED <<config, verifier, _http_client, created, calls, accepted,
                   server, http_response>>

\* fetchall() raises (sqlite3.ProgrammingError) because another thread is
\* using the cursor: the route ends with an unhandled exception
FetchRaises(r) ==
    /\ requests[r].pc = "fetch"
    /\ dbh.c.by # r
    /\ requests' = [requests EXCEPT ![r] = Answer(500, {}, None)]
    /\ UNCHANGED <<dbh, config, verifier, _http_client, created, calls, accepted,
                   server, http_response>>

\* the table after the INSERT, UPDATE or DELETE of the route
Written(table, q) ==
    CASE q.route = "create_schedule" ->
            insert_data(table, schedule_dict(q.schedule, q.user_id))
      [] q.route = "update_schedule" ->
            update_data(table, schedule_dict(q.schedule, q.user_id), q.condition)
      [] q.route = "delete_schedule" -> delete_data(table, q.condition)
      [] OTHER -> table

\* the second statement of create, update and delete, and the answer
Write(r) ==
    /\ requests[r].pc = "write"
    /\ dbh' = [table |-> Written(dbh.table, requests[r]), c |-> Cursor({}, r)]
    /\ requests' = [requests EXCEPT ![r] =
          Answer(200, {},
                 IF requests[r].route = "delete_schedule" THEN None
                 ELSE schedule_dict(requests[r].schedule, requests[r].user_id))]
    /\ UNCHANGED <<config, verifier, _http_client, created, calls, accepted,
                   server, http_response>>

---------------------------------------------------------------------------
(* Specifications *)

\* one request at a time, every outcome of the exchange
Init ==
    /\ config \in Configs
    /\ verifier \in {VerifierFromConfig(config)} \cup DirectVerifiers
    /\ _http_client = None
    /\ created = 0
    /\ calls = [c \in 1..1 |-> IdleCall]
    /\ accepted = {}
    /\ server = NoServer
    /\ http_response = NoResponse
    /\ dbh = EmptyDatabase
    /\ requests = <<>>

Next ==
    \/ \E c \in DOMAIN calls, token \in Tokens : ValidateTokenStart(c, token)
    \/ \E c \in DOMAIN calls, token \in Tokens : VerifyTokenStart(c, token)
    \/ \E c \in DOMAIN calls : PoolConnect(c)
    \/ \E c \in DOMAIN calls : ValidateTokenFinish(c, Outcomes)
    \/ \E c \in DOMAIN calls : VerifyTokenFinish(c, Outcomes)
    \/ \E c \in DOMAIN calls : Deliver(c)

Spec == Init /\ [][Next]_vars

\* one call of either validator from a fresh process, every outcome of the exchange
NextCall ==
    \/ \E c \in DOMAIN calls, token \in Tokens : ValidateTokenStart(c, token)
    \/ \E c \in DOMAIN calls, token \in Tokens : VerifyTokenStart(c, token)
    \/ \E c \in DOMAIN calls : PoolConnect(c)
    \/ \E c \in DOMAIN calls : ValidateTokenFinish(c, Outcomes)
    \/ \E c \in DOMAIN calls : VerifyTokenFinish(c, Outcomes)

SpecCall == Init /\ [][NextCall]_vars

\* MaxTasks requests at once over the local configuration of server.py
InitConc ==
    /\ config \in {cfg \in Configs : cfg.AUTH_HOST = "localhost"}
    /\ verifier = VerifierFromConfig(config)
    /\ _http_client = None
    /\ created = 0
    /\ calls = [c \in 1..MaxTasks |-> IdleCall]
    /\ accepted = {}
    /\ server = NoServer
    /\ http_response = NoResponse
    /\ dbh = EmptyDatabase
    /\ requests = <<>>

NextConc ==
    \/ \E c \in DOMAIN calls, token \in Tokens : ValidateTokenStart(c, token)
    \/ \E c \in DOMAIN calls, token \in Tokens : VerifyTokenStart(c, token)
    \/ \E c \in DOMAIN calls : PoolConnect(c)
    \/ \E c \in DOMAIN calls : ValidateTokenFinish(c, ConcOutcomes)
    \/ \E c \in DOMAIN calls : VerifyTokenFinish(c, ConcOutcomes)
    \/ \E c \in DOMAIN calls : Deliver(c)
    \/ CloseClient

SpecConc == InitConc /\ [][NextConc]_vars

\* the hosts AUTH_HOST is set to: loopback names, a remote host, and remote
\* hosts whose names begin with a loopback name
AuthHosts ==
    { "localhost", "127.0.0.1", "auth.example.com",
      "localhost.example.com", "127.0.0.1.example.com" }

PolicyConfigs == { [cfg EXCEPT !.AUTH_HOST = h] : cfg \in Configs, h \in AuthHosts }

\* verifiers constructed directly with endpoints of every scheme and host class
PolicyVerifiers ==
    { IntrospectionTokenVerifier(e, "http://svc:3000", "mcp-server", "s3cret", "mcp:tools") :
        e \in { "https://auth.example.com/introspect",
                "http://127.0.0.1.example.com/introspect",
                "ftp://localhost/introspect" } }

\* calls of either validator over every class of endpoint
InitPolicy ==
    /\ config \in PolicyConfigs
    /\ verifier \in {VerifierFromConfig(config)} \cup PolicyVerifiers
    /\ _http_client = None
    /\ created = 0
    /\ calls = [c \in 1..1 |-> IdleCall]
    /\ accepted = {}
    /\ server = NoServer
    /\ http_response = NoResponse
    /\ dbh = EmptyDatabase
    /\ requests = <<>>

NextPolicy ==
    \/ \E c \in DOMAIN calls, token \in TokensByLength : ValidateTokenStart(c, token)
    \/ \E c \in DOMAIN calls, token \in TokensByLength : VerifyTokenStart(c, token)
    \/ \E c \in DOMAIN calls : PoolConnect(c)
    \/ \E c \in DOMAIN calls : ValidateTokenFinish(c, ConcOutcomes)
    \/ \E c \in DOMAIN calls : VerifyTokenFinish(c, ConcOutcomes)
    \/ \E c \in DOMAIN calls : Deliver(c)

SpecPolicy == InitPolicy /\ [][NextPolicy]_vars

\* one request at a time over the local configuration of server.py
InitTimed ==
    /\ config \in {cfg \in Configs : cfg.AUTH_HOST = "localhost"}
    /\ verifier = VerifierFromConfig(config)
    /\ _http_client = None
    /\ created = 0
    /\ calls = [c \in 1..1 |-> IdleCall]
    /\ accepted = {}
    /\ server = NoServer
    /\ http_response = NoResponse
    /\ dbh = EmptyDatabase
    /\ requests = <<>>

\* calls of either validator with the passing of time
NextTimed ==
    \/ \E c \in DOMAIN calls, token \in Tokens : ValidateTokenStart(c, token)
    \/ \E c \in DOMAIN calls, token \in Tokens : VerifyTokenStart(c, token)
    \/ \E c \in DOMAIN calls : PoolConnect(c)
    \/ \E c \in DOMAIN calls : Tick(c)
    \/ \E c \in DOMAIN calls : Connected(c)
    \/ \E c \in DOMAIN calls : TimedOut(c)
    \/ \E c \in DOMAIN calls : Refused(c)
    \/ \E c \in DOMAIN calls : AnsweredInTime(c)
    \/ \E c \in DOMAIN calls : Deliver(c)

SpecTimed == InitTimed /\ [][NextTimed]_vars

\* the environments server.py is started in
Transports == {"stdio", "sse", "SSE"}

\* the configurations of the start-up: OAUTH_CLIENT_SECRET may be left unset
ServerConfigs ==
    { [cfg EXCEPT !.OAUTH_CLIENT_SECRET = secret] :
        cfg \in Configs, secret \in {"", "s3cret"} }

\* the calendar API with two worker threads over an empty table
InitCalendar ==
    /\ config \in {cfg \in Configs : cfg.AUTH_HOST = "localhost"}
    /\ verifier = VerifierFromConfig(config)
    /\ _http_client = None
    /\ created = 0
    /\ calls = <<>>
    /\ accepted = {}
    /\ server = NoServer
    /\ http_response = NoResponse
    /\ dbh = EmptyDatabase
    /\ requests = [r \in 1..2 |-> IdleRequest]

NextCalendar ==
    \/ \E r \in DOMAIN requests, headers \in HeaderSets :
          Execute(r, "get_schedules", headers, "", None)
    \/ \E r \in DOMAIN requests, headers \in HeaderSets, schedule_id \in Sids :
          Execute(r, "get_schedule", headers, schedule_id, None)
    \/ \E r \in DOMAIN requests, headers \in HeaderSets, schedule_id \in Sids :
          Execute(r, "delete_schedule", headers, schedule_id, None)
    \/ \E r \in DOMAIN requests, headers \in HeaderSets, schedule \in Bodies :
          Execute(r, "create_schedule", headers, "", schedule)
    \/ \E r \in DOMAIN requests, headers \in HeaderSets, schedule_id \in Sids,
           schedule \in Bodies :
          Execute(r, "update_schedule", headers, schedule_id, schedule)
    \/ \E r \in DOMAIN requests : Fetch(r)
    \/ \E r \in DOMAIN requests : FetchRaises(r)
    \/ \E r \in DOMAIN requests : Write(r)

SpecCalendar == InitCalendar /\ [][NextCalendar]_vars

\* server.py from its start, then the requests of its clients
InitServer ==
    /\ config \in ServerConfigs
    /\ server \in { Starting(tr, local, fastmcp) :
                       tr \in Transports, local \in BOOLEAN, fastmcp \in BOOLEAN }
    /\ verifier = None
    /\ _http_client = None
    /\ created = 0
    /\ calls = [c \in 1..1 |-> IdleCall]
    /\ accepted = {}
    /\ http_response = NoResponse
    /\ dbh = EmptyDatabase
    /\ requests = <<>>

NextServer ==
    \/ BuildServer
    \/ Main
    \/ GetWellKnown
    \/ CallMetadata
    \/ CallChallengeHeader
    \/ \E c \in DOMAIN calls, token \in Tokens : ProtectedRequest(c, token)
    \/ \E c \in DOMAIN calls : PoolConnect(c)
    \/ \E c \in DOMAIN calls : VerifyTokenFinish(c, ConcOutcomes)
    \/ \E c \in DOMAIN calls : Respond(c)

SpecServer == InitServer /\ [][NextServer]_vars

---------------------------------------------------------------------------
(* Vocabulary of the properties, stated without the validators' operators *)

Done(c) == calls[c].pc = "done"

\* the call returned an AccessToken
Accepts(c) ==
    Done(c) /\ calls[c].ret.kind = "return" /\ calls[c].ret.value # None

\* the call returned None
Rejects(c) ==
    Done(c) /\ calls[c].ret.kind = "return" /\ calls[c].ret.value = None

\* the configuration the call's path reads
EndpointOf(c) ==
    IF calls[c].path = "validate_token"
    THEN introspection_endpoint(config) ELSE verifier.introspection_endpoint

ServiceUrlOf(c) ==
    IF calls[c].path = "validate_token"
    THEN server_url(config) ELSE verifier.server_url

RequiredScopeOf(c) ==
    IF calls[c].path = "validate_token"
    THEN config.MCP_SCOPE ELSE verifier.required_scope

\* s begins with p
BeginsWith(s, p) == \E k \in 0..Len(s) : SubSeq(s, 1, k) = p

PassesTransportPolicy(endpoint) ==
    \/ BeginsWith(endpoint, "https://")
    \/ BeginsWith(endpoint, "http://localhost")
    \/ BeginsWith(endpoint, "http://127.0.0.1")

\* p is s without its trailing slashes
IsTrimOf(p, s) ==
    \E k \in 0..Len(s) :
        /\ p = SubSeq(s, 1, k)
        /\ \A i \in (k + 1)..Len(s) : SubSeq(s, i, i) = "/"
        /\ k = 0 \/ SubSeq(s, k, k) # "/"

\* a and b are equal once trailing slashes are trimmed from both
SameTrimmed(a, b) ==
    \E k \in 0..Len(a) : IsTrimOf(SubSeq(a, 1, k), a) /\ IsTrimOf(SubSeq(a, 1, k), b)

\* the entries an `aud` value contains: the string itself, the items of a
\* list that are strings, the keys of an object
AudEntries(aud) ==
    CASE aud.t = "str" -> {aud.v}
      [] aud.t = "list" -> {aud.v[i].v : i \in {j \in 1..Len(aud.v) : aud.v[j].t = "str"}}
      [] aud.t = "obj" -> {aud.v[i] : i \in 1..Len(aud.v)}
      [] OTHER -> {}

AudContains(aud, url) == \E e \in AudEntries(aud) : SameTrimmed(e, url)

\* aud is a single string or a list of strings
AudWellFormed(aud) ==
    \/ aud.t = "str"
    \/ aud.t = "list" /\ \A i \in 1..Len(aud.v) : aud.v[i].t = "str"

\* w is one of the whitespace-separated tokens of s
HasScopeToken(s, w) ==
    \E i \in 1..(Len(s) - Len(w) + 1) :
        /\ SubSeq(s, i, i + Len(w) - 1) = w
        /\ i = 1 \/ SubSeq(s, i - 1, i - 1) \in Whitespace
        /\ i + Len(w) - 1 = Len(s) \/ SubSeq(s, i + Len(w), i + Len(w)) \in Whitespace

ScopeGranted(scope, w) == scope.t = "str" /\ HasScopeToken(scope.v, w)

\* the exchange of the call ended in a 200 response carrying a JSON object
GotObject(c) ==
    /\ Done(c)
    /\ calls[c].resp.kind = "response"
    /\ calls[c].resp.status_code = 200
    /\ calls[c].resp.body.t = "dict"

DataOf(c) == calls[c].resp.body.v

\* `active` is present and not a false value
ActiveTruthy(data) ==
    data.active \notin {Absent, None, Bool(FALSE), Num(0), Str(""), List(<<>>), Obj(<<>>)}

---------------------------------------------------------------------------
(* C1 .. C10 *)

\* C1: soundness of acceptance.  Whenever a validation call (validate_token or
\* verify_token) returns an AccessToken, in that same call the endpoint passed
\* the transport policy, one introspection request was made and answered with
\* status 200, the JSON had a truthy `active`, its `aud` contained an entry
\* equal to the service URL up to trailing slashes, and the whitespace-split
\* `scope` contained the required scope.
C1_AcceptanceSound ==
    \A c \in DOMAIN calls :
        Accepts(c) =>
            /\ PassesTransportPolicy(EndpointOf(c))
            /\ calls[c].posts = 1
            /\ GotObject(c)
            /\ ActiveTruthy(DataOf(c))
            /\ AudContains(DataOf(c).aud, ServiceUrlOf(c))
            /\ ScopeGranted(DataOf(c).scope, RequiredScopeOf(c))

C1_Witness ==
    \E c \in DOMAIN calls :
        /\ Accepts(c)
        /\ calls[c].path = "verify_token"
        /\ DataOf(c).aud = List(<<Str("http://other:3000"), Str("http://svc:3000/")>>)
        /\ DataOf(c).scope = Str("read\tmcp:tools\n")

\* C2: the validator never raises to its caller.  Every finished call, for
\* every outcome of the exchange (exception, any status, a body that is not
\* JSON, JSON that is not an object, fields of unexpected types), ended by
\* returning an AccessToken or None.
C2_NeverRaises ==
    \A c \in DOMAIN calls :
        Done(c) => calls[c].ret.kind = "return"

\* a call whose try block raised on a non-iterable `aud`
C2_Witness ==
    \E c \in DOMAIN calls :
        /\ GotObject(c)
        /\ DataOf(c).active = Bool(TRUE)
        /\ DataOf(c).aud = Num(5)
        /\ Rejects(c)
        /\ calls[c].ret.reason = "Token validation error"

\* C3: transport policy check.  A call whose endpoint begins with none of
\* https://, http://localhost, http://127.0.0.1 is rejected without any
\* request being issued; otherwise the exchange is attempted.  In particular
\* http://example.com/introspect is refused and
\* http://localhost:8080/introspect and https://auth.example.com/introspect
\* pass.
C3_TransportPolicy ==
    \A c \in DOMAIN calls :
        calls[c].pc # "idle" =>
            /\ IF PassesTransportPolicy(EndpointOf(c))
               THEN calls[c].posts = 1 /\ calls[c].client # None
               ELSE /\ Rejects(c)
                    /\ calls[c].posts = 0
                    /\ calls[c].client = None
                    /\ calls[c].resp = NoOutcome
            /\ EndpointOf(c) = "http://example.com/introspect" => calls[c].posts = 0
            /\ EndpointOf(c) \in {"http://localhost:8080/introspect",
                                  "https://auth.example.com/introspect"}
                    => calls[c].posts = 1

C3_Witness ==
    \E c \in DOMAIN calls :
        /\ EndpointOf(c) = "http://example.com/introspect"
        /\ Rejects(c)
        /\ calls[c].posts = 0

\* C4: liveness check.  A response whose `active` is false or absent is
\* rejected whatever aud, scope, client_id, sub and exp are.
C4_InactiveRejected ==
    \A c \in DOMAIN calls :
        (GotObject(c) /\ DataOf(c).active \in {Absent, Bool(FALSE)}) => Rejects(c)

\* an inactive response whose audience and scope would pass
C4_Witness ==
    \E c \in DOMAIN calls :
        /\ GotObject(c)
        /\ DataOf(c).active = Absent
        /\ AudContains(DataOf(c).aud, ServiceUrlOf(c))
        /\ ScopeGranted(DataOf(c).scope, RequiredScopeOf(c))
        /\ Rejects(c)

\* C5: audience check.  For an active response whose `aud` is a single
\* string or a list of strings, the audience check passes exactly when an
\* entry equals the service URL once trailing slashes are trimmed from both;
\* with no such entry the call is rejected (e.g. http://other:3000 against
\* http://svc:3000).
AudienceReasons == {"Missing audience claim in token", "Audience mismatch"}

C5_AudienceCheck ==
    \A c \in DOMAIN calls :
        (GotObject(c) /\ ActiveTruthy(DataOf(c)) /\ AudWellFormed(DataOf(c).aud)) =>
            /\ AudContains(DataOf(c).aud, ServiceUrlOf(c))
                    <=> calls[c].ret.reason \notin AudienceReasons
            /\ ~AudContains(DataOf(c).aud, ServiceUrlOf(c)) => Rejects(c)
            /\ (DataOf(c).aud = Str("http://other:3000")
                    /\ ServiceUrlOf(c) = "http://svc:3000") => Rejects(c)

\* a list holding the service URL with a trailing slash passes the check
C5_Witness ==
    \E c \in DOMAIN calls :
        /\ GotObject(c)
        /\ DataOf(c).active = Bool(TRUE)
        /\ DataOf(c).aud = List(<<Str("http://other:3000"), Str("http://svc:3000/")>>)
        /\ ServiceUrlOf(c) = "http://svc:3000"
        /\ Accepts(c)

\* C6: scope check.  For an active response that passes the audience check,
\* the call accepts exactly when the required scope is one of the
\* whitespace-separated tokens of the `scope` string: "mcp:tools extra:scope"
\* satisfies mcp:tools; "extra:scope", "", an absent scope and a scope that
\* merely contains mcp:tools inside a longer token do not.
C6_ScopeCheck ==
    \A c \in DOMAIN calls :
        (/\ GotObject(c)
         /\ ActiveTruthy(DataOf(c))
         /\ AudWellFormed(DataOf(c).aud)
         /\ AudContains(DataOf(c).aud, ServiceUrlOf(c))) =>
            /\ Accepts(c) <=> ScopeGranted(DataOf(c).scope, RequiredScopeOf(c))
            /\ ~Accepts(c) => Rejects(c)
            /\ RequiredScopeOf(c) = "mcp:tools" =>
                /\ DataOf(c).scope = Str("mcp:tools extra:scope") => Accepts(c)
                /\ DataOf(c).scope \in {Str("extra:scope"), Str(""), Absent,
                                        Str("xmcp:tools:y")} => Rejects(c)

\* a scope string separated by a tab and ended by a newline grants mcp:tools
C6_Witness ==
    \E c \in DOMAIN calls :
        /\ GotObject(c)
        /\ DataOf(c).active = Bool(TRUE)
        /\ DataOf(c).aud = Str("http://svc:3000/")
        /\ DataOf(c).scope = Str("read\tmcp:tools\n")
        /\ Accepts(c)

\* C7: construction on acceptance.  Whenever the endpoint passes the transport
\* policy and the response has status 200, `active` true, a matching `aud` and
\* the required scope, the call, at both call sites, returns an AccessToken
\* whose token is the presented string, whose client_id is the response's
\* client_id or "unknown", whose scopes are all whitespace-split scope tokens,
\* whose subject is the response's sub or "unknown", and whose expiration is
\* the response's exp.
C7_Construction ==
    \A c \in DOMAIN calls :
        (/\ GotObject(c)
         /\ PassesTransportPolicy(EndpointOf(c))
         /\ DataOf(c).active = Bool(TRUE)
         /\ AudWellFormed(DataOf(c).aud)
         /\ AudContains(DataOf(c).aud, ServiceUrlOf(c))
         /\ ScopeGranted(DataOf(c).scope, RequiredScopeOf(c))) =>
            /\ Accepts(c)
            /\ LET tok == calls[c].ret.value
                   data == DataOf(c)
               IN  /\ tok.token = calls[c].token
                   /\ tok.client_id =
                        (IF data.client_id = Absent THEN Str("unknown") ELSE data.client_id)
                   /\ tok.scopes = Split(data.scope.v)
                   /\ tok.expires_at = (IF data.exp = Absent THEN None ELSE data.exp)
                   /\ "subject" \in DOMAIN tok
                   /\ tok.subject = (IF data.sub = Absent THEN Str("unknown") ELSE data.sub)

\* C8: transport faults are rejections.  A call whose exchange ended in a
\* status other than 200, in a transport exception or in a body that is not
\* JSON returns None: no AccessToken and no exception escape.
C8_TransportFaultsRejected ==
    \A c \in DOMAIN calls :
        (/\ Done(c)
         /\ \/ calls[c].resp.kind = "exception"
            \/ calls[c].resp.kind = "response" /\ calls[c].resp.status_code # 200
            \/ calls[c].resp.kind = "response" /\ calls[c].resp.body.t = "text")
        => Rejects(c)

\* HTTP 500 with a body that would otherwise be accepted
C8_Witness ==
    \E c \in DOMAIN calls :
        /\ Done(c)
        /\ calls[c].resp = Response(500, GoodObject)
        /\ Rejects(c)

\* C9: concurrent validations, through either validation path, all perform
\* their exchange through one and the same pooled client instance, and no
\* more than max_connections connections are open to the authorization server
\* at once.
InFlight(c) == calls[c].pc \in {"pool_wait", "await_response"}

C9_OnePooledClient ==
    /\ \A c, d \in DOMAIN calls :
            (InFlight(c) /\ InFlight(d)) =>
                /\ calls[c].client.pooled
                /\ calls[c].client = calls[d].client
    /\ Cardinality({c \in DOMAIN calls : calls[c].pc = "await_response"})
            <= max_connections

\* C10: no cross-request caching.  Every call whose endpoint passes the
\* transport policy issues its own introspection request, and its verdict is
\* determined by that call's response and the configuration alone: it accepts
\* exactly when the response is a 200 JSON object that is active, passes the
\* audience check and grants the required scope.  In particular a token
\* accepted by an earlier call is rejected when the server now answers
\* inactive or with a status other than 200.
AudPasses(aud, url) ==
    CASE aud.t = "str" -> SameTrimmed(aud.v, url)
      [] aud.t = "list" ->
            \E i \in 1..Len(aud.v) :
                /\ \A j \in 1..i : aud.v[j].t = "str"
                /\ SameTrimmed(aud.v[i].v, url)
      [] aud.t = "obj" -> \E i \in 1..Len(aud.v) : SameTrimmed(aud.v[i], url)
      [] OTHER -> FALSE

Acceptable(c) ==
    /\ PassesTransportPolicy(EndpointOf(c))
    /\ GotObject(c)
    /\ ActiveTruthy(DataOf(c))
    /\ AudPasses(DataOf(c).aud, ServiceUrlOf(c))
    /\ ScopeGranted(DataOf(c).scope, RequiredScopeOf(c))

C10_NoCaching ==
    \A c \in DOMAIN calls :
        /\ (calls[c].pc # "idle" /\ PassesTransportPolicy(EndpointOf(c)))
                => calls[c].posts = 1
        /\ Done(c) => (Accepts(c) <=> Acceptable(c))
        /\ (/\ Done(c)
            /\ calls[c].token \in accepted
            /\ \/ GotObject(c) /\ DataOf(c).active = Bool(FALSE)
               \/ calls[c].resp.kind = "response" /\ calls[c].resp.status_code # 200)
           => Rejects(c)

\* a token accepted by an earlier call, now answered `active: false`
C10_Witness ==
    \E c \in DOMAIN calls :
        /\ calls[c].token \in accepted
        /\ GotObject(c)
        /\ DataOf(c).active = Bool(FALSE)
        /\ AudContains(DataOf(c).aud, ServiceUrlOf(c))
        /\ ScopeGranted(DataOf(c).scope, RequiredScopeOf(c))
        /\ Rejects(c)

---------------------------------------------------------------------------
(* C11 .. C20 *)

\* the metadata documents the last call of the resource layer produced
ServedMetadata ==
    IF http_response.t = "JSONResponse" THEN {http_response.body}
    ELSE IF http_response.t = "value"
            /\ http_response.of = "get_protected_resource_metadata"
         THEN {http_response.v}
         ELSE {}

\* the path the discovery document is served at
WellKnownPath == "/.well-known/oauth-protected-resource"

\* C11: protected-resource metadata.  Every call of
\* get_protected_resource_metadata, and every GET of the route
\* /.well-known/oauth-protected-resource that get_routes returns, yields a
\* document with exactly the keys resource, authorization_servers,
\* scopes_supported and bearer_methods_supported, where resource is the
\* service URL, authorization_servers is the one-element list of the
\* authorization server's base URL without its trailing slashes,
\* scopes_supported is the one-element list of the required scope and
\* bearer_methods_supported is ["header"]; the document depends on the
\* configuration only, so it is the same on every call.
C11_Metadata ==
    /\ \A doc \in ServedMetadata :
          /\ DOMAIN doc = {"resource", "authorization_servers",
                           "scopes_supported", "bearer_methods_supported"}
          /\ doc.resource = server_url(config)
          /\ doc.authorization_servers.t = "list"
          /\ Len(doc.authorization_servers.v) = 1
          /\ IsTrimOf(doc.authorization_servers.v[1], auth_base_url(config))
          /\ doc.scopes_supported = [t |-> "list", v |-> <<config.MCP_SCOPE>>]
          /\ doc.bearer_methods_supported = [t |-> "list", v |-> <<"header">>]
    /\ http_response.t = "JSONResponse" => http_response.status_code = 200
    /\ Len(get_routes(config)) = 1
    /\ get_routes(config)[1].path = WellKnownPath
    /\ get_routes(config)[1].methods = <<"GET">>

\* the route has served the document of the scenario: service URL
\* http://svc:3000, authorization server .../realms/master/ with its slash
C11_Witness ==
    /\ http_response.t = "JSONResponse"
    /\ http_response.body.resource = "http://svc:3000"
    /\ http_response.body.authorization_servers.v
          = <<"http://auth.example.com:8080/realms/master">>
    /\ auth_base_url(config) = "http://auth.example.com:8080/realms/master/"
    /\ http_response.body.scopes_supported.v = <<"mcp:tools">>

\* the step in which the caller of the protected resource is answered for call c
Answered(c) == calls[c].pc = "done" /\ calls'[c].pc = "idle"

\* C12: challenge on rejection.  Whenever the validator rejected a request
\* (returned None), the answer the caller of the protected resource receives
\* is a 401 whose WWW-Authenticate header is the one built by
\* get_www_authenticate_header; no rejected request is answered without it.
C12_ChallengeOnRejection ==
    [][ \A c \in DOMAIN calls :
          (Rejects(c) /\ Answered(c)) =>
              /\ http_response'.t = "Response"
              /\ http_response'.status_code = 401
              /\ http_response'.www_authenticate.built_by
                    = "get_www_authenticate_header" ]_vars

\* C13: challenge header value.  get_www_authenticate_header always returns
\* Bearer realm="mcp", resource_metadata="<service URL><path>", where
\* <service URL> is the value the metadata document reports as `resource`
\* and <path> is the path of the route the metadata document is served at,
\* /.well-known/oauth-protected-resource.
C13_ChallengeHeader ==
    (http_response.t = "value" /\ http_response.of = "get_www_authenticate_header") =>
        /\ \E route \in {get_routes(config)[i] : i \in 1..Len(get_routes(config))} :
              /\ route.endpoint.body.resource = server_url(config)
              /\ http_response.v =
                    "Bearer realm=\"mcp\", resource_metadata=\""
                        \o route.endpoint.body.resource \o route.path \o "\""
        /\ \E k \in 1..Len(http_response.v) :
              SubSeq(http_response.v, k, Len(http_response.v))
                  = WellKnownPath \o "\""

\* the header was built for the service URL http://svc:3000
C13_Witness ==
    /\ http_response.t = "value"
    /\ http_response.of = "get_www_authenticate_header"
    /\ http_response.v =
          "Bearer realm=\"mcp\", resource_metadata=\"http://svc:3000/.well-known/oauth-protected-resource\""

\* the process was asked for the SSE transport
SseMode == server.MCP_TRANSPORT \in {"sse", "SSE"}

\* the process has got past its start-up code
StartupOver == server.pc \notin {"module", "main"}

\* C14: a configuration fault is fatal.  Started in SSE mode with an empty
\* OAUTH_CLIENT_SECRET, or without the OAuth modules, the process fails at
\* start-up and never serves; and whenever the SSE transport is serving, the
\* FastMCP instance was built with the IntrospectionTokenVerifier as its auth
\* provider and the client secret is not empty.
C14_ConfigurationFaultFatal ==
    /\ (SseMode /\ (config.OAUTH_CLIENT_SECRET = ""
                     \/ ~server.LOCAL_AUTH_AVAILABLE
                     \/ ~server.FASTMCP_AUTH_AVAILABLE)) =>
          /\ server.pc # "serving"
          /\ StartupOver => server.pc = "failed" /\ server.raised # ""
          /\ http_response = NoResponse
          /\ \A c \in DOMAIN calls : calls[c].pc = "idle"
    /\ (server.pc = "serving" /\ server.transport = "sse") =>
          /\ SseMode
          /\ server.mcp.t = "FastMCP"
          /\ server.mcp.auth # None
          /\ server.mcp.auth = verifier
          /\ verifier.introspection_endpoint = introspection_endpoint(config)
          /\ verifier.client_secret = config.OAUTH_CLIENT_SECRET
          /\ verifier.client_secret # ""

\* the start-up failed on the missing secret although the OAuth modules were there
C14_Witness ==
    /\ SseMode
    /\ server.LOCAL_AUTH_AVAILABLE /\ server.FASTMCP_AUTH_AVAILABLE
    /\ config.OAUTH_CLIENT_SECRET = ""
    /\ server.pc = "failed"
    /\ server.raised = "ValueError"

\* the classes of rejection: what went wrong in the call, told from its
\* configuration and the outcome of its exchange
InsecureEndpoint(c) == Done(c) /\ ~PassesTransportPolicy(EndpointOf(c))

TransportFault(c) ==
    /\ Done(c)
    /\ PassesTransportPolicy(EndpointOf(c))
    /\ \/ calls[c].resp.kind = "exception"
       \/ calls[c].resp.kind = "response" /\ calls[c].resp.status_code # 200

InactiveToken(c) == GotObject(c) /\ ~ActiveTruthy(DataOf(c))

MissingAudience(c) == GotObject(c) /\ DataOf(c).aud \in {Absent, None, Str(""), List(<<>>)}

AudienceMismatch(c) ==
    /\ GotObject(c)
    /\ AudWellFormed(DataOf(c).aud)
    /\ ~AudContains(DataOf(c).aud, ServiceUrlOf(c))

MissingScope(c) == GotObject(c) /\ ~ScopeGranted(DataOf(c).scope, RequiredScopeOf(c))

\* what the caller can see of a finished call
Visible(c) == <<calls[c].ret.kind, calls[c].ret.value>>

\* C15: uniform external outcome.  Whatever the class of the rejection
\* (insecure endpoint, transport fault, inactive token, missing audience,
\* audience mismatch, missing scope), what the caller gets is the same:
\* the call returns, and the value returned is None with nothing attached.
C15_UniformRejection ==
    \A c \in DOMAIN calls :
        (\/ InsecureEndpoint(c) \/ TransportFault(c) \/ InactiveToken(c)
         \/ MissingAudience(c) \/ AudienceMismatch(c) \/ MissingScope(c))
            => Visible(c) = <<"return", [t |-> "null"]>>

\* a call rejected for an audience mismatch: the reason is in the log only
C15_Witness ==
    \E c \in DOMAIN calls :
        /\ AudienceMismatch(c)
        /\ ActiveTruthy(DataOf(c))
        /\ PassesTransportPolicy(EndpointOf(c))
        /\ calls[c].ret.reason = "Audience mismatch"
        /\ Visible(c) = <<"return", [t |-> "null"]>>

\* the calls that went through get_http_client() in the step
GotClient(c) ==
    /\ calls[c].pc = "idle"
    /\ calls'[c].pc = "pool_wait"
    /\ calls'[c].path = "verify_token"

\* no usable shared client is stored: none yet, or a closed one
NoOpenClient == _http_client = None \/ _http_client.is_closed

\* C16: guarded lazy initialisation.  However the first uses of
\* get_http_client interleave (several validations starting while no client
\* exists or the stored one is closed), one new client is created, and
\* every caller is handed that one instance: a client is created only in a
\* step that found no open client stored, one at a time, and each caller
\* ends its call of get_http_client holding the stored, open instance.
C16_GuardedLazyInit ==
    [][ /\ created' \in {created, created + 1}
        /\ created' = created + 1 => NoOpenClient
        /\ \A c \in DOMAIN calls :
              GotClient(c) =>
                  /\ _http_client' # None
                  /\ ~_http_client'.is_closed
                  /\ calls'[c].client = ClientRef(_http_client')
                  /\ ~NoOpenClient => _http_client' = _http_client
        /\ \A c, d \in DOMAIN calls :
              (GotClient(c) /\ InFlight(d) /\ calls[d].path = "verify_token"
                 /\ calls[d].client.id = created /\ ~NoOpenClient)
                    => calls'[c].client = calls[d].client ]_vars

\* two validations started while no client existed: one instance, held by both
C16_Witness ==
    /\ created = 1
    /\ _http_client # None
    /\ ~_http_client.is_closed
    /\ \A c \in {1, 2} :
          /\ InFlight(c)
          /\ calls[c].path = "verify_token"
          /\ calls[c].client = ClientRef(_http_client)

\* C17: life cycle of the pooled client.  No client exists before the first
\* call of get_http_client; a call made while a stored client exists and is
\* open returns that client and changes nothing; a call made while the
\* stored client is absent or closed creates a client, stores it and returns
\* it.  So get_http_client never returns a client that is closed when it
\* returns, and there is one stored client at most: the last one created.
C17_ClientLifecycle ==
    [][ /\ (created = 0) <=> (_http_client = None)
        /\ _http_client # None => _http_client.id = created
        /\ (\A c \in DOMAIN calls : ~GotClient(c)) =>
              /\ created' = created
              /\ (_http_client = None) <=> (_http_client' = None)
        /\ \A c \in DOMAIN calls :
              GotClient(c) =>
                  /\ IF _http_client # None /\ ~_http_client.is_closed
                     THEN /\ _http_client' = _http_client
                          /\ created' = created
                          /\ calls'[c].client = [pooled |-> TRUE, id |-> _http_client.id]
                     ELSE /\ created' = created + 1
                          /\ _http_client' # None
                          /\ _http_client'.id = created + 1
                          /\ calls'[c].client = [pooled |-> TRUE, id |-> created + 1]
                  /\ ~_http_client'.is_closed
                  /\ _http_client'.id = calls'[c].client.id ]_vars

\* a call made after the shared client was closed holds the second client
C17_Witness ==
    /\ created = 2
    /\ ~_http_client.is_closed
    /\ \E c \in DOMAIN calls :
          /\ InFlight(c)
          /\ calls[c].path = "verify_token"
          /\ calls[c].client = [pooled |-> TRUE, id |-> 2]

\* C18: no automatic retry.  A validation call sends one introspection POST
\* at most: one when the endpoint passes the transport policy, none
\* otherwise; after a timeout, a connection error or a status other than
\* 200 it returns the rejection without a second request.
C18_NoRetry ==
    \A c \in DOMAIN calls :
        /\ calls[c].posts <= 1
        /\ calls[c].pc # "idle" =>
              calls[c].posts = IF PassesTransportPolicy(EndpointOf(c)) THEN 1 ELSE 0
        /\ TransportFault(c) => Rejects(c) /\ calls[c].posts = 1

\* a call whose only request timed out has ended in a rejection
C18_Witness ==
    \E c \in DOMAIN calls :
        /\ Done(c)
        /\ calls[c].resp = [kind |-> "exception", exc |-> "TimeoutException"]
        /\ calls[c].posts = 1
        /\ Rejects(c)

\* the message the call logged for its rejection
LoggedReason(c) == calls[c].ret.reason

\* C19: order of the checks, with short circuit.  A call runs its checks in
\* the order transport policy, HTTP status, `active`, presence of `aud`,
\* match of `aud`, scope, and the reason it logs is that of the first check
\* that fails, whatever the later checks would have found (an inactive token
\* with a wrong audience is reported inactive); no check after the failing
\* one is evaluated, so a value a later check would choke on changes nothing.
C19_CheckOrder ==
    \A c \in DOMAIN calls :
        /\ InsecureEndpoint(c) =>
              /\ LoggedReason(c) = "Introspection endpoint must use HTTPS in production"
              /\ calls[c].posts = 0
              /\ calls[c].resp = [kind |-> "pending"]
        /\ (Done(c) /\ calls[c].resp.kind = "response"
               /\ calls[c].resp.status_code # 200) =>
              LoggedReason(c) = "Introspection failed"
        /\ InactiveToken(c) => LoggedReason(c) = "Token is inactive or expired"
        /\ (GotObject(c) /\ ActiveTruthy(DataOf(c)) /\ MissingAudience(c)) =>
              LoggedReason(c) = "Missing audience claim in token"
        /\ (GotObject(c) /\ ActiveTruthy(DataOf(c)) /\ ~MissingAudience(c)
               /\ AudienceMismatch(c)) =>
              LoggedReason(c) = "Audience mismatch"
        /\ (GotObject(c) /\ ActiveTruthy(DataOf(c))
               /\ AudPasses(DataOf(c).aud, ServiceUrlOf(c))
               /\ DataOf(c).scope.t # "list"
               /\ MissingScope(c)) =>
              LoggedReason(c) = "Token missing required scope"

\* an inactive token whose `aud` is a number, which the audience check
\* would raise on: the call reports it inactive
C19_Witness ==
    \E c \in DOMAIN calls :
        /\ InactiveToken(c)
        /\ DataOf(c).aud = [t |-> "num", v |-> 5]
        /\ ~AudContains(DataOf(c).aud, ServiceUrlOf(c))
        /\ LoggedReason(c) = "Token is inactive or expired"

\* the verifier was constructed with the values of config, as server.py does
SameConfiguration ==
    /\ verifier.introspection_endpoint = introspection_endpoint(config)
    /\ verifier.server_url = server_url(config)
    /\ verifier.client_id = config.OAUTH_CLIENT_ID
    /\ verifier.client_secret = config.OAUTH_CLIENT_SECRET
    /\ verifier.required_scope = config.MCP_SCOPE

\* C20: the two call sites are equivalent.  With the verifier constructed
\* from the values of Config, validate_token and verify_token reach the same
\* verdict for every token and every outcome of the exchange, and when they
\* accept they agree on the client identifier, the scopes and the
\* expiration; trimming of trailing slashes in `aud` and splitting of the
\* scope string on whitespace behave the same in both.
C20_CallSitesEquivalent ==
    SameConfiguration =>
        \A c \in DOMAIN calls :
            Done(c) =>
                IF calls[c].resp = [kind |-> "pending"]
                THEN /\ Rejects(c)
                     /\ ~PassesTransportPolicy(introspection_endpoint(config))
                     /\ ~PassesTransportPolicy(verifier.introspection_endpoint)
                ELSE LET a == validate_token(calls[c].token, calls[c].resp)
                         b == verify_token(calls[c].token, calls[c].resp)
                     IN  /\ calls[c].ret = IF calls[c].path = "validate_token" THEN a ELSE b
                         /\ a.kind = "return" /\ b.kind = "return"
                         /\ (a.value = [t |-> "null"]) <=> (b.value = [t |-> "null"])
                         /\ a.value # [t |-> "null"] =>
                               /\ a.value.token = b.value.token
                               /\ a.value.client_id = b.value.client_id
                               /\ a.value.scopes = b.value.scopes
                               /\ a.value.expires_at = b.value.expires_at

\* verify_token accepted an `aud` with a trailing slash and a tab-separated
\* scope string, and validate_token accepts the same response the same way
C20_Witness ==
    /\ SameConfiguration
    /\ \E c \in DOMAIN calls :
          /\ Accepts(c)
          /\ calls[c].path = "verify_token"
          /\ DataOf(c).aud = [t |-> "str", v |-> "http://svc:3000/"]
          /\ DataOf(c).scope = [t |-> "str", v |-> "read\tmcp:tools\n"]
          /\ validate_token(calls[c].token, calls[c].resp).value.scopes
                = <<"read", "mcp:tools">>
          /\ calls[c].ret.value.scopes = <<"read", "mcp:tools">>

---------------------------------------------------------------------------
(* C21 .. C30 *)

\* the characters of url from position i up to the first ":" or "/"
RECURSIVE UpToDelimiter(_, _)
UpToDelimiter(url, i) ==
    IF i > Len(url) \/ SubSeq(url, i, i) \in {":", "/"}
    THEN ""
    ELSE SubSeq(url, i, i) \o UpToDelimiter(url, i + 1)

\* the URL is plain http, and the host it names
PlainHttp(url) == BeginsWith(url, "http://")
HostOf(url) == UpToDelimiter(url, Len("http://") + 1)

\* C21: no plaintext credentials to a non-loopback host.  No introspection
\* POST (it carries the token and the client secret) is ever sent over plain
\* http:// to a host other than localhost or 127.0.0.1, whatever the endpoint
\* URL, also when its host only begins with a loopback name.
C21_NoPlaintextToRemoteHost ==
    \A c \in DOMAIN calls :
        (calls[c].posts >= 1 /\ PlainHttp(EndpointOf(c))) =>
            HostOf(EndpointOf(c)) \in {"localhost", "127.0.0.1"}

\* C22: missing audience versus mismatched audience.  An active response
\* without `aud` (absent, an empty string or an empty list) is rejected with
\* the reason "missing audience"; an active response with a non-empty `aud`
\* that does not contain the service URL is rejected with the other reason,
\* "audience mismatch".  Both reject, and neither gets to the scope check,
\* whatever `scope` holds.
C22_MissingVersusMismatch ==
    \A c \in DOMAIN calls :
        (GotObject(c) /\ ActiveTruthy(DataOf(c))) =>
            /\ DataOf(c).aud \in {Absent, Str(""), List(<<>>)} =>
                  /\ Rejects(c)
                  /\ LoggedReason(c) = "Missing audience claim in token"
            /\ (/\ DataOf(c).aud \notin {Absent, Str(""), List(<<>>)}
                /\ AudWellFormed(DataOf(c).aud)
                /\ ~AudContains(DataOf(c).aud, ServiceUrlOf(c))) =>
                  /\ Rejects(c)
                  /\ LoggedReason(c) = "Audience mismatch"
            /\ LoggedReason(c) \in AudienceReasons =>
                  /\ Rejects(c)
                  /\ ~AudContains(DataOf(c).aud, ServiceUrlOf(c))

\* an empty `aud` list next to a `scope` that is not even a string: the
\* call reports the missing audience
C22_Witness ==
    \E c \in DOMAIN calls :
        /\ GotObject(c)
        /\ ActiveTruthy(DataOf(c))
        /\ DataOf(c).aud = [t |-> "list", v |-> <<>>]
        /\ DataOf(c).scope.t = "list"
        /\ Rejects(c)
        /\ LoggedReason(c) = "Missing audience claim in token"

\* line contains s as a substring
Mentions(line, s) ==
    \E i \in 1..(Len(line) - Len(s) + 1) : SubSeq(line, i, i + Len(s) - 1) = s

\* C23: only a masked prefix of the token is logged.  For every validation
\* call and every length of token, no line the validator writes to the log
\* or the console, and no string representation of the AccessToken it
\* returns, contains the complete token presented.
C23_MaskedTokenLogging ==
    \A c \in DOMAIN calls :
        /\ \A i \in 1..Len(calls[c].log) : ~Mentions(calls[c].log[i], calls[c].token)
        /\ (Accepts(c) /\ calls[c].path = "validate_token") =>
              ~Mentions(AccessTokenRepr(calls[c].ret.value), calls[c].token)

\* the outcome of call c with the `exp` of its response replaced by e
WithExp(c, e) ==
    [calls[c].resp EXCEPT !.body = [t |-> "dict", v |-> [DataOf(c) EXCEPT !.exp = e]]]

\* the verdict call c's validator gives on outcome o
VerdictOn(c, o) ==
    IF calls[c].path = "validate_token"
    THEN validate_token(calls[c].token, o)
    ELSE verify_token(calls[c].token, o)

\* C24: expiration is informational.  The verdict does not depend on the
\* `exp` of the response: responses that differ in `exp` only (absent, in the
\* past, in the future) get the same verdict, and an active response with
\* matching audience and scope is accepted although its `exp` is in the past.
C24_ExpirationInformational ==
    \A c \in DOMAIN calls :
        GotObject(c) =>
            /\ \A e \in {[t |-> "absent"], [t |-> "num", v |-> 1],
                          [t |-> "num", v |-> 2000000000]} :
                  /\ VerdictOn(c, WithExp(c, e)).kind = "return"
                  /\ (VerdictOn(c, WithExp(c, e)).value = [t |-> "null"]) <=> Rejects(c)
            /\ VerdictOn(c, calls[c].resp) = calls[c].ret
            /\ (Acceptable(c) /\ DataOf(c).exp = [t |-> "num", v |-> 1]) =>
                  /\ Accepts(c)
                  /\ calls[c].ret.value.expires_at = [t |-> "num", v |-> 1]

\* a response whose `exp` is one second after the epoch has been accepted
C24_Witness ==
    \E c \in DOMAIN calls :
        /\ GotObject(c)
        /\ DataOf(c).exp = [t |-> "num", v |-> 1]
        /\ Accepts(c)
        /\ calls[c].ret.value.expires_at = [t |-> "num", v |-> 1]

\* the outcome of call c with the `scope` of its response replaced by s
WithScope(c, s) ==
    [calls[c].resp EXCEPT !.body = [t |-> "dict", v |-> [DataOf(c) EXCEPT !.scope = s]]]

\* scope names, and scope strings that list them in several orders
ScopeWords == {"mcp:tools", "extra:scope", "read"}

ScopeOrderings ==
    { "mcp:tools extra:scope", "extra:scope mcp:tools",
      "mcp:tools extra:scope mcp:tools", "mcp:tools", "mcp:tools mcp:tools" }

\* the two scope strings name the same scopes
SameScopeSet(s1, s2) ==
    \A w \in ScopeWords : HasScopeToken(s1, w) <=> HasScopeToken(s2, w)

\* C25: granted scopes are a set.  Two AccessTokens that validate_token
\* produces for the same token from responses whose `scope` strings hold the
\* same scope names in another order, or with repetitions, are equal, have
\* the same hash and answer has_scope alike for every scope.
C25_ScopesOrderIrrelevant ==
    \A c \in DOMAIN calls :
        (Accepts(c) /\ calls[c].path = "validate_token"
            /\ DataOf(c).scope.t = "str") =>
            \A s \in ScopeOrderings :
                SameScopeSet(DataOf(c).scope.v, s) =>
                    LET t1 == calls[c].ret.value
                        t2 == validate_token(calls[c].token,
                                             WithScope(c, [t |-> "str", v |-> s])).value
                    IN  /\ t2 # [t |-> "null"]
                        /\ \A w \in ScopeWords : has_scope(t1, w) <=> has_scope(t2, w)
                        /\ AccessTokenEq(t1, t2)
                        /\ AccessTokenHash(t1) = AccessTokenHash(t2)

\* C26: every validation call ends with a verdict.  Under the 10-second
\* timeout of the HTTP client a validation whose authorization server never
\* answers returns a rejection, and the introspection exchange as a whole
\* never lasts longer than the timeout.
C26_TimeoutBoundsExchange ==
    \A c \in DOMAIN calls :
        /\ calls[c].elapsed <= timeout
        /\ (Done(c) /\ calls[c].resp = [kind |-> "exception", exc |-> "TimeoutException"])
              => Rejects(c)

\* C27: frame of a validation.  A validation call changes no shared state
\* but the slot of the pooled client: the configuration (hosts, ports,
\* realm, client id and secret, required scope) and the verifier's endpoint,
\* service URL, credentials and scope stay as they are through any sequence
\* of validations, accepted or rejected; the slot itself changes only in a
\* call of get_http_client, and validate_token never touches it.
C27_Frame ==
    [][ /\ config' = config
        /\ verifier' = verifier
        /\ server' = server
        /\ http_response' = http_response
        /\ (_http_client' # _http_client \/ created' # created) =>
              \E c \in DOMAIN calls : GotClient(c)
        /\ \A c \in DOMAIN calls :
              (calls'[c].path = "validate_token" /\ calls'[c] # calls[c]) =>
                  _http_client' = _http_client /\ created' = created ]_vars

\* after an accepted validation, a rejected one has finished and the pooled
\* client exists
C27_Witness ==
    /\ accepted # {}
    /\ _http_client # None
    /\ \E c \in DOMAIN calls : Rejects(c) /\ calls[c].path = "verify_token"

\* the call validates against the endpoint derived by Config: validate_token
\* always does, verify_token does when the verifier is built as in server.py
DerivedEndpoint(c) ==
    \/ calls[c].path = "validate_token"
    \/ calls[c].path = "verify_token" /\ verifier = VerifierFromConfig(config)

LoopbackPrefixed(host) == BeginsWith(host, "localhost") \/ BeginsWith(host, "127.0.0.1")

\* C28: the derived endpoint under the transport policy.  Config derives
\* the authorization-server base URL with the fixed scheme http://, so when
\* AUTH_HOST does not begin with localhost or 127.0.0.1 the derived
\* introspection endpoint fails the policy: validate_token, and a verifier
\* built from the configuration as in server.py, reject every token without
\* a network request.  A token is accepted only when AUTH_HOST begins with
\* a loopback name.
C28_DerivedEndpointPolicy ==
    \A c \in DOMAIN calls :
        (DerivedEndpoint(c) /\ ~LoopbackPrefixed(config.AUTH_HOST)) =>
            /\ ~PassesTransportPolicy(EndpointOf(c))
            /\ calls[c].posts = 0
            /\ ~InFlight(c)
            /\ calls[c].client = None
            /\ Done(c) => Rejects(c)

\* the verifier of server.py rejected a token for a remote AUTH_HOST
C28_Witness ==
    \E c \in DOMAIN calls :
        /\ config.AUTH_HOST = "auth.example.com"
        /\ calls[c].path = "verify_token"
        /\ verifier = VerifierFromConfig(config)
        /\ Rejects(c)
        /\ calls[c].posts = 0

\* call c's response with its `aud` replaced
WithAud(c, a) ==
    [calls[c].resp EXCEPT !.body = [t |-> "dict", v |-> [DataOf(c) EXCEPT !.aud = a]]]

\* the lists with the items of seq in every order
Orderings(seq) ==
    { [i \in 1..Len(seq) |-> seq[f[i]]] : f \in Permutations(1..Len(seq)) }

\* C29: the audience verdict on a list does not depend on its order.  For an
\* active response whose `aud` list contains the service URL, every
\* permutation of the list gets the verdict the list itself got, and the
\* audience check passes (the token is accepted when the required scope is
\* granted), also when the list holds entries that are not strings.
C29_AudOrderIrrelevant ==
    \A c \in DOMAIN calls :
        ( /\ GotObject(c)
          /\ ActiveTruthy(DataOf(c))
          /\ DataOf(c).aud.t = "list"
          /\ AudContains(DataOf(c).aud, ServiceUrlOf(c)) ) =>
            \A p \in Orderings(DataOf(c).aud.v) :
                /\ VerdictOn(c, WithAud(c, List(p))).value = calls[c].ret.value
                /\ ScopeGranted(DataOf(c).scope, RequiredScopeOf(c)) =>
                        VerdictOn(c, WithAud(c, List(p))).value # None

\* the request carries an identity header
Identified(q) == Truthy(q.user_id)

\* the rows of the table that belong to someone else than user_id
RowsOfOthers(table, user_id) == {row \in table : row.user_id # user_id}

\* thread r takes a step of a request
Steps(r) == requests[r].pc \in {"fetch", "write"} /\ requests'[r] # requests[r]

\* thread r answers its request
Answers(r) == Steps(r) /\ requests'[r].pc = "done"

\* C30: tenant isolation in the calendar API.  A request that carries an
\* identity header (X-Forwarded-User, else X-User-ID, else X-Remote-User)
\* for user U reads, changes and deletes only schedules whose user_id is U:
\* its steps leave the rows of every other owner as they are, a listing or
\* a get answers with rows of U only, a created or updated schedule is
\* answered and stored with user_id U whatever the body says, and get,
\* update and delete of a schedule id U has no row for answer 404.
C30_TenantIsolation ==
    [][ \A r \in DOMAIN requests :
          (Steps(r) /\ Identified(requests[r])) =>
            LET q == requests[r]
                U == q.user_id
                answer == requests'[r]
            IN  /\ U = IF Truthy(q.headers.X_Forwarded_User) THEN q.headers.X_Forwarded_User
                        ELSE IF Truthy(q.headers.X_User_ID) THEN q.headers.X_User_ID
                        ELSE q.headers.X_Remote_User
                /\ RowsOfOthers(dbh'.table, U) = RowsOfOthers(dbh.table, U)
                /\ Answers(r) =>
                      /\ \A row \in answer.rows : row.user_id = U
                      /\ (answer.status_code = 200
                            /\ q.route \in {"create_schedule", "update_schedule"}) =>
                              /\ answer.response.user_id = U
                              /\ q.route = "create_schedule" =>
                                    answer.response \in dbh'.table
                      /\ (q.route \in {"get_schedule", "update_schedule", "delete_schedule"}
                            /\ ~q.found) => answer.status_code = 404 ]_vars

====
